---- MODULE Spec2Model ----
(***************************************************************************)
(* aw-mcp-rs: the request/response pipeline of the ActivityWatch MCP       *)
(* server.  One tool invocation at a time is followed from the call,       *)
(* through parameter validation, the outbound HTTP GET, the classification *)
(* of the upstream outcome and the decoding of the body, to the rendered   *)
(* tool result.                                                            *)
(*                                                                         *)
(* A Rust String is modelled as the sequence of its characters.  An ASCII  *)
(* character is the one-character TLA+ string; the three non-ASCII         *)
(* characters of the model are named by their code point ("U+00E9").       *)
(* String::len() and string slicing count UTF-8 bytes, so every character  *)
(* carries its encoded width (Utf8Len).                                    *)
(***************************************************************************)
EXTENDS Integers, Sequences, FiniteSets, TLC

\* ------------------------------------------------------------ constants

CHARACTER_LIMIT == 25000

DEFAULT_EVENTS_LIMIT == 100

\* Option<T>: None is the empty sequence, Some(x) the one-element sequence.
None == <<>>

Some(x) == <<x>>

\* ------------------------------------------------------------ strings

\* The UTF-8 width of a character: U+00E9 (e acute) takes 2 bytes, U+65E5
\* (CJK "day") and U+3000 (ideographic space) take 3, ASCII takes 1.
Utf8Len(c) ==
  IF c = "U+00E9" THEN 2
  ELSE IF c \in {"U+65E5", "U+3000"} THEN 3
  ELSE 1

RECURSIVE ByteLenRange(_, _, _)
\* The number of bytes of the characters s[lo..hi].
ByteLenRange(s, lo, hi) ==
  IF lo > hi THEN 0
  ELSE IF lo = hi THEN Utf8Len(s[lo])
  ELSE LET m == (lo + hi) \div 2
       IN ByteLenRange(s, lo, m) + ByteLenRange(s, m + 1, hi)

\* str::is_ascii: every character is one byte wide.
IsAscii(s) == \A i \in 1..Len(s) : s[i] \notin {"U+00E9", "U+65E5", "U+3000"}

\* String::len(): the length in bytes.
ByteLen(s) == IF IsAscii(s) THEN Len(s) ELSE ByteLenRange(s, 1, Len(s))

RECURSIVE CharsWithin(_, _, _, _)
\* The largest k in lo-1..hi such that the characters s[lo..k] fit in n bytes.
CharsWithin(s, lo, hi, n) ==
  IF lo > hi THEN hi
  ELSE IF lo = hi THEN (IF Utf8Len(s[lo]) <= n THEN lo ELSE lo - 1)
  ELSE LET m    == (lo + hi) \div 2
           left == ByteLenRange(s, lo, m)
       IN IF left <= n THEN CharsWithin(s, m + 1, hi, n - left)
          ELSE CharsWithin(s, lo, m, n)

\* &s[..n]: the slice of the first n bytes.  Slicing panics when byte n is
\* not a character boundary (or lies past the end).
SliceTo(s, n) ==
  IF IsAscii(s)
  THEN (IF n <= Len(s) THEN [ok |-> TRUE, v |-> SubSeq(s, 1, n)]
        ELSE [ok |-> FALSE])
  ELSE LET k == CharsWithin(s, 1, Len(s), n)
       IN IF ByteLenRange(s, 1, k) = n
          THEN [ok |-> TRUE, v |-> SubSeq(s, 1, k)]
          ELSE [ok |-> FALSE]

\* char::is_whitespace (the Unicode White_Space property), on the characters
\* a string of the model can hold: space, tab, line feed, form feed, carriage
\* return and U+3000.
IsWhitespace(c) == c \in {" ", "\t", "\n", "\f", "\r", "U+3000"}

RECURSIVE TrimStart(_)
TrimStart(s) ==
  IF s # <<>> /\ IsWhitespace(Head(s)) THEN TrimStart(Tail(s)) ELSE s

RECURSIVE TrimEnd(_)
TrimEnd(s) ==
  IF s # <<>> /\ IsWhitespace(s[Len(s)])
  THEN TrimEnd(SubSeq(s, 1, Len(s) - 1)) ELSE s

\* str::trim(): leading and trailing whitespace removed.
Trim(s) == TrimEnd(TrimStart(s))

RECURSIVE Concat(_, _, _)
\* The concatenation of the strings ss[lo..hi].
Concat(ss, lo, hi) ==
  IF lo > hi THEN <<>>
  ELSE IF lo = hi THEN ss[lo]
  ELSE LET m == (lo + hi) \div 2
       IN Concat(ss, lo, m) \o Concat(ss, m + 1, hi)

\* [String]::join(sep).
Join(ss, sep) ==
  Concat([i \in 1..(2 * Len(ss) - 1) |->
            IF i % 2 = 1 THEN ss[(i + 1) \div 2] ELSE sep],
         1, 2 * Len(ss) - 1)

\* s ends with suffix / starts with prefix / contains sub.
EndsWith(s, suffix) ==
  /\ Len(suffix) <= Len(s)
  /\ SubSeq(s, Len(s) - Len(suffix) + 1, Len(s)) = suffix

StartsWith(s, prefix) ==
  /\ Len(prefix) <= Len(s)
  /\ SubSeq(s, 1, Len(prefix)) = prefix

Contains(s, sub) ==
  \/ sub = <<>>
  \/ \E i \in 0..(Len(s) - Len(sub)) :
       s[i + 1] = sub[1] /\ SubSeq(s, i + 1, i + Len(sub)) = sub

Digit(d) == <<"0", "1", "2", "3", "4", "5", "6", "7", "8", "9">>[d + 1]

RECURSIVE FmtNat(_)
FmtNat(n) == IF n < 10 THEN <<Digit(n)>> ELSE FmtNat(n \div 10) \o <<Digit(n % 10)>>

\* Display of an integer ("{}").
FmtInt(n) == IF n < 0 THEN <<"-">> \o FmtNat(-n) ELSE FmtNat(n)

\* "{:02}" and "{:04}": zero-padded to a width.
FmtPad(n, width) ==
  LET d == FmtNat(n)
  IN [i \in 1..(IF Len(d) < width THEN width - Len(d) ELSE 0) |-> "0"] \o d

\* A string literal of the source as a sequence of characters.
Chars(str) == [i \in 1..Len(str) |-> SubSeq(str, i, i)]

\* char::escape_debug as str's Debug uses it: quote, backslash and the control
\* characters are escaped (the form feed, which has no short escape, as
\* \u{c}), a non-printable character (U+3000, a space separator) is written
\* \u{3000}, everything else is kept.
EscapeDebug(c) ==
  CASE c = "\"" -> <<"\\", "\"">>
    [] c = "\\" -> <<"\\", "\\">>
    [] c = "\n" -> <<"\\", "n">>
    [] c = "\t" -> <<"\\", "t">>
    [] c = "\r" -> <<"\\", "r">>
    [] c = "\f" -> Chars("\\u{c}")
    [] c = "U+3000" -> Chars("\\u{3000}")
    [] OTHER -> <<c>>

RECURSIVE DebugEscaped(_, _, _)
\* The characters s[lo..hi], each escaped for Debug.
DebugEscaped(s, lo, hi) ==
  IF lo > hi THEN <<>>
  ELSE IF lo = hi THEN EscapeDebug(s[lo])
  ELSE LET m == (lo + hi) \div 2
       IN DebugEscaped(s, lo, m) \o DebugEscaped(s, m + 1, hi)

\* <str as Debug>::fmt ("{:?}" of a string): quoted and escaped.
DebugStr(s) ==
  <<"\"">>
  \o (IF \A i \in 1..Len(s) :
            s[i] \notin {"\"", "\\", "\n", "\t", "\r", "\f", "U+3000"}
      THEN s
      ELSE DebugEscaped(s, 1, Len(s)))
  \o <<"\"">>

\* ------------------------------------------------------------ JSON

\* A JSON document as it is written: an object holds its members in text
\* order, and may repeat a name.  The same shapes stand for a
\* serde_json::Value, whose object is a BTreeMap: it has each name once, with
\* the value the text gave it last, and is iterated in the order of the names.
JNull == [t |-> "null"]

JStr(s) == [s |-> s, t |-> "str"]

\* An integer literal (60).
JInt(n) == [n |-> n, t |-> "int"]

\* A literal with one decimal (60.5), held in tenths (605).
JDec(tenths) == [t |-> "dec", tenths |-> tenths]

JArr(items) == [t |-> "arr", a |-> items]

JObj(members) == [m |-> members, t |-> "obj"]

\* What a Serialize impl of a struct or of a HashMap writes: the members in
\* the order the impl emits them.
JFields(members) == [m |-> members, t |-> "fields"]

\* Is key a member name of the object, and the value it names: the one of
\* its last occurrence (a later insert replaces an earlier one).
HasKey(obj, key) == \E i \in 1..Len(obj.m) : obj.m[i][1] = key

Member(obj, key) ==
  obj.m[CHOOSE i \in 1..Len(obj.m) :
          /\ obj.m[i][1] = key
          /\ \A j \in (i + 1)..Len(obj.m) : obj.m[j][1] # key][2]

\* The object's text names the key more than once.
Repeated(obj, key) ==
  \E i, j \in 1..Len(obj.m) : i # j /\ obj.m[i][1] = key /\ obj.m[j][1] = key

\* The members a serializer writes for an object: those of a struct or
\* HashMap as emitted; those of a Value (a BTreeMap) each once, in the order
\* of their names, which is String's: byte by byte, that is code point by
\* code point.  U+0060 stands where the backquote is.
Entries(v) ==
  IF v.t = "fields" \/ Len(v.m) <= 1 THEN v.m
  ELSE LET CodePoint(c) ==
             CASE c = "\t" -> 9
               [] c = "\n" -> 10
               [] c = "\f" -> 12
               [] c = "\r" -> 13
               [] c = "U+00E9" -> 233
               [] c = "U+3000" -> 12288
               [] c = "U+65E5" -> 26085
               [] OTHER ->
                    31 + (CHOOSE i \in 1..95 :
                            (Chars(" !\"#$%&'()*+,-./0123456789:;<=>?@ABCDEFGHIJKLMNOPQRSTUVWXYZ[\\]^_")
                             \o <<"U+0060">>
                             \o Chars("abcdefghijklmnopqrstuvwxyz{|}~"))[i] = c)
           RECURSIVE StrLess(_, _)
           StrLess(a, b) ==
             IF b = <<>> THEN FALSE
             ELSE IF a = <<>> THEN TRUE
             ELSE IF Head(a) = Head(b) THEN StrLess(Tail(a), Tail(b))
             ELSE CodePoint(Head(a)) < CodePoint(Head(b))
           RECURSIVE Sorted(_)
           Sorted(keys) ==
             IF keys = {} THEN <<>>
             ELSE LET first == CHOOSE k \in keys :
                                 \A j \in keys : j = k \/ StrLess(k, j)
                  IN <<first>> \o Sorted(keys \ {first})
           Names(sorted) == [i \in 1..Len(sorted) |-> <<sorted[i], Member(v, sorted[i])>>]
       IN Names(Sorted({v.m[i][1] : i \in 1..Len(v.m)}))

\* serde_json's string escapes: quote, backslash and the control characters
\* (of which a string of the model can hold the four below); non-ASCII
\* characters are written as they are.
EscapeJson(c) ==
  CASE c = "\"" -> <<"\\", "\"">>
    [] c = "\\" -> <<"\\", "\\">>
    [] c = "\n" -> <<"\\", "n">>
    [] c = "\t" -> <<"\\", "t">>
    [] c = "\r" -> <<"\\", "r">>
    [] c = "\f" -> <<"\\", "f">>
    [] OTHER -> <<c>>

RECURSIVE JsonEscaped(_, _, _)
\* The characters s[lo..hi], each escaped for JSON.
JsonEscaped(s, lo, hi) ==
  IF lo > hi THEN <<>>
  ELSE IF lo = hi THEN EscapeJson(s[lo])
  ELSE LET m == (lo + hi) \div 2
       IN JsonEscaped(s, lo, m) \o JsonEscaped(s, m + 1, hi)

\* A string as serde_json writes it: quoted and escaped.
JsonString(s) ==
  <<"\"">>
  \o (IF \A i \in 1..Len(s) : s[i] \notin {"\"", "\\", "\n", "\t", "\r", "\f"}
      THEN s
      ELSE JsonEscaped(s, 1, Len(s)))
  \o <<"\"">>

\* A value held in tenths with one decimal: f64's "{:.1}" and, for the values
\* of the model (multiples of 0.1), serde_json's f64 output: the sign, the
\* whole part and the tenth of the magnitude.
FmtTenths(tenths) ==
  IF tenths < 0
  THEN <<"-">> \o FmtNat((-tenths) \div 10) \o <<".">> \o <<Digit((-tenths) % 10)>>
  ELSE FmtNat(tenths \div 10) \o <<".">> \o <<Digit(tenths % 10)>>

Indent(level) == [i \in 1..(2 * level) |-> " "]

RECURSIVE Pretty(_, _)
\* serde_json::to_string_pretty: two-space indent, one member or item per
\* line, "key": value, and {} or [] for an empty object or array.
Pretty(v, level) ==
  CASE v.t = "null" -> Chars("null")
    [] v.t = "str" -> JsonString(v.s)
    [] v.t = "int" -> FmtInt(v.n)
    [] v.t = "dec" -> FmtTenths(v.tenths)
    [] v.t = "arr" ->
         IF v.a = <<>> THEN Chars("[]")
         ELSE Chars("[\n")
              \o Join([i \in 1..Len(v.a) |->
                         Indent(level + 1) \o Pretty(v.a[i], level + 1)],
                      Chars(",\n"))
              \o Chars("\n") \o Indent(level) \o Chars("]")
    [] v.t = "obj" -> Pretty(JFields(Entries(v)), level)
    [] v.t = "fields" ->
         IF v.m = <<>> THEN Chars("{}")
         ELSE Chars("{\n")
              \o Join([i \in 1..Len(v.m) |->
                         Indent(level + 1) \o JsonString(v.m[i][1]) \o Chars(": ")
                         \o Pretty(v.m[i][2], level + 1)],
                      Chars(",\n"))
              \o Chars("\n") \o Indent(level) \o Chars("}")

to_string_pretty(v) == Pretty(v, 0)

RECURSIVE Compact(_)
\* serde_json::to_string (Value's Display): no whitespace.
Compact(v) ==
  CASE v.t = "null" -> Chars("null")
    [] v.t = "str" -> JsonString(v.s)
    [] v.t = "int" -> FmtInt(v.n)
    [] v.t = "dec" -> FmtTenths(v.tenths)
    [] v.t = "arr" ->
         Chars("[") \o
         (IF v.a = <<>> THEN <<>>
          ELSE Join([i \in 1..Len(v.a) |-> Compact(v.a[i])], Chars(",")))
         \o Chars("]")
    [] v.t = "obj" -> Compact(JFields(Entries(v)))
    [] v.t = "fields" ->
         Chars("{") \o
         (IF v.m = <<>> THEN <<>>
          ELSE Join([i \in 1..Len(v.m) |->
                       JsonString(v.m[i][1]) \o Chars(":") \o Compact(v.m[i][2])],
                    Chars(",")))
         \o Chars("}")

\* ------------------------------------------------------------ data model

ResponseFormat == {"markdown", "json"}

\* The other variant as the default.
ResponseFormat_default_json == "json"

\* #[default] Markdown: the format of a call that names none.
ResponseFormat_default == "markdown"

\* #[serde(default)] response_format: Option of the raw parameter to the
\* format the handler sees.
response_format_of(raw) == IF raw = None THEN ResponseFormat_default ELSE raw[1]

IsDigit(c) == \E d \in 0..9 : Digit(d) = c

DigitVal(c) == CHOOSE d \in 0..9 : Digit(d) = c

RECURSIVE ParseNat(_)
ParseNat(s) ==
  IF s = <<>> THEN 0
  ELSE 10 * ParseNat(SubSeq(s, 1, Len(s) - 1)) + DigitVal(s[Len(s)])

\* The number of days of a month of the proleptic Gregorian calendar.
DaysIn(year, month) ==
  IF month = 2
  THEN (IF year % 4 = 0 /\ (year % 100 # 0 \/ year % 400 = 0) THEN 29 ELSE 28)
  ELSE IF month \in {4, 6, 9, 11} THEN 30 ELSE 31

\* The fields of a timestamp are a date and a time of day that exist; a
\* second of 60 is a leap second, which chrono takes at any time of day.
ValidDateTime(dt) ==
  IF /\ dt.year \in -262143..262142
     /\ dt.month \in 1..12
     /\ dt.day \in 1..DaysIn(dt.year, dt.month)
     /\ dt.hour \in 0..23
     /\ dt.minute \in 0..59
     /\ dt.second \in 0..60
  THEN [ok |-> TRUE, v |-> dt]
  ELSE [ok |-> FALSE]

RECURSIVE parse_internal(_, _, _, _)
\* chrono's parser over a list of items, from item i on the rest s of the
\* text: a number (after any whitespace; of at most 2 digits, 4 for the year,
\* which with a sign in front takes every digit), "space" (any whitespace),
\* a literal, and "nano" (a "." and digits after it, of which nine count).
parse_internal(parsed, s, items, i) ==
  IF i > Len(items) THEN [ok |-> TRUE, parsed |-> parsed, s |-> s]
  ELSE IF items[i] = "space" THEN parse_internal(parsed, TrimStart(s), items, i + 1)
  ELSE IF items[i] \in {"-", ":"}
  THEN (IF s # <<>> /\ Head(s) = items[i]
        THEN parse_internal(parsed, Tail(s), items, i + 1)
        ELSE [ok |-> FALSE])
  ELSE LET Digits(t, max) ==
             CHOOSE n \in 0..(IF Len(t) < max THEN Len(t) ELSE max) :
               /\ \A k \in 1..n : IsDigit(t[k])
               /\ n = max \/ n = Len(t) \/ ~IsDigit(t[n + 1])
           Zeros(t) ==
             CHOOSE n \in 0..Len(t) :
               /\ \A k \in 1..n : t[k] = "0"
               /\ n = Len(t) \/ t[n + 1] # "0"
           Number(t, n, sign) ==
             IF n = 0 \/ n - Zeros(SubSeq(t, 1, n)) > 9 THEN [ok |-> FALSE]
             ELSE parse_internal(
                    [parsed EXCEPT ![items[i]] = sign * ParseNat(SubSeq(t, 1, n))],
                    SubSeq(t, n + 1, Len(t)), items, i + 1)
           Numeric(t) ==
             IF items[i] = "year" /\ t # <<>> /\ Head(t) \in {"+", "-"}
             THEN Number(Tail(t), Digits(Tail(t), Len(t)),
                         IF Head(t) = "-" THEN -1 ELSE 1)
             ELSE Number(t, Digits(t, IF items[i] = "year" THEN 4 ELSE 2), 1)
           Nano(t, n) ==
             IF n = 0 THEN [ok |-> FALSE]
             ELSE parse_internal(
                    [parsed EXCEPT !.nano =
                       ParseNat(SubSeq(t, 1, n))
                       * <<100000000, 10000000, 1000000, 100000, 10000, 1000,
                           100, 10, 1>>[n]],
                    SubSeq(t, Digits(t, Len(t)) + 1, Len(t)), items, i + 1)
       IN IF items[i] # "nano" THEN Numeric(TrimStart(s))
          ELSE IF s # <<>> /\ Head(s) = "." THEN Nano(Tail(s), Digits(Tail(s), 9))
          ELSE parse_internal(parsed, s, items, i + 1)

\* DateTime::with_timezone(&Utc): the local date and time with the offset (in
\* seconds, less than a day either way) taken off.  A leap second stays one.
with_timezone(dt, offset) ==
  LET at == dt.hour * 3600 + dt.minute * 60
            + (IF dt.second = 60 THEN 59 ELSE dt.second) - offset
      Clock(d, t) ==
        [d EXCEPT !.hour = t \div 3600, !.minute = (t % 3600) \div 60,
                  !.second = IF dt.second = 60 THEN 60 ELSE t % 60]
  IN IF at < 0
     THEN Clock(IF dt.day > 1 THEN [dt EXCEPT !.day = dt.day - 1]
                ELSE IF dt.month > 1
                THEN [dt EXCEPT !.month = dt.month - 1,
                                !.day = DaysIn(dt.year, dt.month - 1)]
                ELSE [dt EXCEPT !.year = dt.year - 1, !.month = 12, !.day = 31],
                at + 86400)
     ELSE IF at >= 86400
     THEN Clock(IF dt.day < DaysIn(dt.year, dt.month)
                THEN [dt EXCEPT !.day = dt.day + 1]
                ELSE IF dt.month < 12
                THEN [dt EXCEPT !.month = dt.month + 1, !.day = 1]
                ELSE [dt EXCEPT !.year = dt.year + 1, !.month = 1, !.day = 1],
                at - 86400)
     ELSE Clock(dt, at)

\* Deserialize for DateTime<Utc>: the string parsed as chrono's FromStr for
\* DateTime<FixedOffset> parses it (RFC 3339, relaxed) and taken to UTC.  The
\* date is year-month-day, then "T", "t" or a space, then the time
\* hour:minute:second with an optional fraction, then "Z", "z", "UTC" in any
\* case or an offset +hh:mm or -hh:mm (the colon may be left out or be
\* whitespace); nothing but whitespace may follow.  The usual form
\* "YYYY-MM-DDTHH:MM:SSZ" is taken apart directly.
ParseDateTime(s) ==
  IF /\ Len(s) = 20
     /\ \A i \in {1, 2, 3, 4, 6, 7, 9, 10, 12, 13, 15, 16, 18, 19} : IsDigit(s[i])
     /\ s[5] = "-" /\ s[8] = "-" /\ s[11] = "T"
     /\ s[14] = ":" /\ s[17] = ":" /\ s[20] = "Z"
  THEN ValidDateTime([year |-> ParseNat(SubSeq(s, 1, 4)),
                      month |-> ParseNat(SubSeq(s, 6, 7)),
                      day |-> ParseNat(SubSeq(s, 9, 10)),
                      hour |-> ParseNat(SubSeq(s, 12, 13)),
                      minute |-> ParseNat(SubSeq(s, 15, 16)),
                      second |-> ParseNat(SubSeq(s, 18, 19)),
                      nano |-> 0])
  ELSE LET Minutes(sign, hours, t) ==
             IF Len(t) >= 2 /\ t[1] \in {"0", "1", "2", "3", "4", "5"}
                /\ IsDigit(t[2])
             THEN [ok |-> TRUE,
                   offset |-> sign * (hours * 3600 + ParseNat(SubSeq(t, 1, 2)) * 60),
                   s |-> SubSeq(t, 3, Len(t))]
             ELSE [ok |-> FALSE]
           ColonOrSpace(t) ==
             SubSeq(t,
                    (CHOOSE n \in 0..Len(t) :
                       /\ \A k \in 1..n : t[k] = ":" \/ IsWhitespace(t[k])
                       /\ n = Len(t) \/ ~(t[n + 1] = ":" \/ IsWhitespace(t[n + 1])))
                    + 1,
                    Len(t))
           timezone_offset(t) ==
             IF t = <<>> THEN [ok |-> FALSE]
             ELSE IF t[1] \in {"Z", "z"}
             THEN [ok |-> TRUE, offset |-> 0, s |-> Tail(t)]
             ELSE IF /\ Len(t) >= 3 /\ t[1] \in {"U", "u"} /\ t[2] \in {"T", "t"}
                     /\ t[3] \in {"C", "c"}
             THEN [ok |-> TRUE, offset |-> 0, s |-> SubSeq(t, 4, Len(t))]
             ELSE IF /\ t[1] \in {"+", "-"} /\ Len(t) >= 3
                     /\ IsDigit(t[2]) /\ IsDigit(t[3])
             THEN Minutes(IF t[1] = "-" THEN -1 ELSE 1, ParseNat(SubSeq(t, 2, 3)),
                          ColonOrSpace(SubSeq(t, 4, Len(t))))
             ELSE [ok |-> FALSE]
           Zoned(local, zone) ==
             IF /\ zone.ok /\ TrimStart(zone.s) = <<>>
                /\ zone.offset > -86400 /\ zone.offset < 86400
                /\ ValidDateTime(local).ok
             THEN ValidDateTime(with_timezone(local, zone.offset))
             ELSE [ok |-> FALSE]
           Timed(time) ==
             IF time.ok THEN Zoned(time.parsed, timezone_offset(TrimStart(time.s)))
             ELSE [ok |-> FALSE]
           Dated(date) ==
             IF date.ok /\ date.s # <<>> /\ Head(date.s) \in {"T", "t", " "}
             THEN Timed(parse_internal(
                          date.parsed, Tail(date.s),
                          <<"hour", "space", ":", "minute", "space", ":", "second",
                            "nano", "space">>, 1))
             ELSE [ok |-> FALSE]
       IN Dated(parse_internal(
                  [year |-> 0, month |-> 0, day |-> 0, hour |-> 0, minute |-> 0,
                   second |-> 0, nano |-> 0],
                  s, <<"year", "space", "-", "month", "space", "-", "day">>, 1))

\* The year as chrono writes it: four digits, or with a sign when it is not
\* one of 0..9999.
FmtYear(year) ==
  IF year \in 0..9999 THEN FmtPad(year, 4)
  ELSE <<IF year < 0 THEN "-" ELSE "+">>
       \o FmtPad(IF year < 0 THEN -year ELSE year, 4)

\* DateTime::format("%Y-%m-%d %H:%M:%S").
FormatDateTime(dt) ==
  FmtYear(dt.year) \o <<"-">> \o FmtPad(dt.month, 2) \o <<"-">>
  \o FmtPad(dt.day, 2) \o <<" ">> \o FmtPad(dt.hour, 2) \o <<":">>
  \o FmtPad(dt.minute, 2) \o <<":">> \o FmtPad(dt.second, 2)

\* Serialize for DateTime<Utc>: RFC 3339 with the Z suffix, the fraction of
\* the second in 3, 6 or 9 digits when there is one.
SerializeDateTime(dt) ==
  FmtYear(dt.year) \o <<"-">> \o FmtPad(dt.month, 2) \o <<"-">>
  \o FmtPad(dt.day, 2) \o <<"T">> \o FmtPad(dt.hour, 2) \o <<":">>
  \o FmtPad(dt.minute, 2) \o <<":">> \o FmtPad(dt.second, 2)
  \o (IF dt.nano = 0 THEN <<>>
      ELSE IF dt.nano % 1000000 = 0
      THEN <<".">> \o FmtPad(dt.nano \div 1000000, 3)
      ELSE IF dt.nano % 1000 = 0 THEN <<".">> \o FmtPad(dt.nano \div 1000, 6)
      ELSE <<".">> \o FmtPad(dt.nano, 9))
  \o <<"Z">>

\* An optional member of a struct with #[serde(default)]: absent or null.
Absent(obj, key) == ~HasKey(obj, key) \/ Member(obj, key) = JNull

\* Option<String> member: None when absent, the string when it is one.
OptString(obj, key) ==
  IF Absent(obj, key) THEN [ok |-> TRUE, v |-> None]
  ELSE IF Member(obj, key).t = "str"
       THEN [ok |-> TRUE, v |-> Some(Member(obj, key).s)]
       ELSE [ok |-> FALSE]

\* A decoded value as the Some of an Option member; a decode error stays one.
SomeOf(decoded) ==
  IF decoded.ok THEN [ok |-> TRUE, v |-> Some(decoded.v)] ELSE [ok |-> FALSE]

\* Option<DateTime<Utc>> member.
OptDateTime(obj, key) ==
  IF Absent(obj, key) THEN [ok |-> TRUE, v |-> None]
  ELSE IF Member(obj, key).t = "str"
       THEN SomeOf(ParseDateTime(Member(obj, key).s))
       ELSE [ok |-> FALSE]

\* HashMap<String, serde_json::Value> from an object: a function of the keys,
\* each to the value of its last occurrence.
ToMap(obj) ==
  [k \in {obj.m[i][1] : i \in 1..Len(obj.m)} |-> Member(obj, k)]

\* Option<HashMap<String, Value>> member.
OptMap(obj, key) ==
  IF Absent(obj, key) THEN [ok |-> TRUE, v |-> None]
  ELSE IF Member(obj, key).t = "obj"
       THEN [ok |-> TRUE, v |-> Some(ToMap(Member(obj, key)))]
       ELSE [ok |-> FALSE]

\* The Bucket of its decoded fields, or the decode error of one of them.
BucketOf(id, client, bucket_type, hostname, created, data, last_updated) ==
  IF /\ client.ok /\ bucket_type.ok /\ hostname.ok
     /\ created.ok /\ data.ok /\ last_updated.ok
  THEN [ok |-> TRUE,
        v |-> [id |-> id,
               client |-> client.v,
               bucket_type |-> bucket_type.v,
               hostname |-> hostname.v,
               created |-> created.v,
               data |-> data.v,
               last_updated |-> last_updated.v]]
  ELSE [ok |-> FALSE]

\* A derived Deserialize takes a struct written as a JSON array as well: the
\* items are the fields in declaration order, those left out at the end are
\* missing, and an item more than the struct has fields is an error (here:
\* no struct at all).
visit_seq(j, fields) ==
  IF j.t # "arr" THEN j
  ELSE IF Len(j.a) > Len(fields) THEN JNull
  ELSE JObj([i \in 1..Len(j.a) |-> <<fields[i], j.a[i]>>])

\* Deserialize for Bucket: id is required, every other field is optional, and
\* a field that the text gives twice is an error (duplicate field).
DecodeBucket(j) ==
  LET visit_map(o) ==
        IF /\ o.t = "obj" /\ HasKey(o, Chars("id"))
           /\ Member(o, Chars("id")).t = "str"
           /\ \A f \in {Chars("id"), Chars("client"), Chars("type"),
                        Chars("hostname"), Chars("created"), Chars("data"),
                        Chars("last_updated")} : ~Repeated(o, f)
        THEN BucketOf(Member(o, Chars("id")).s,
                      OptString(o, Chars("client")),
                      OptString(o, Chars("type")),
                      OptString(o, Chars("hostname")),
                      OptDateTime(o, Chars("created")),
                      OptMap(o, Chars("data")),
                      OptDateTime(o, Chars("last_updated")))
        ELSE [ok |-> FALSE]
  IN visit_map(visit_seq(j, <<Chars("id"), Chars("client"), Chars("type"),
                              Chars("hostname"), Chars("created"), Chars("data"),
                              Chars("last_updated")>>))

\* The Event of its decoded fields, or the decode error of its timestamp.
\* The duration is kept in tenths of a second.
EventOf(id, timestamp, duration, data) ==
  IF timestamp.ok
  THEN [ok |-> TRUE,
        v |-> [id |-> id,
               timestamp |-> timestamp.v,
               duration |-> IF duration.t = "int" THEN 10 * duration.n
                            ELSE duration.tenths,
               data |-> data]]
  ELSE [ok |-> FALSE]

\* Deserialize for Event: timestamp, duration and data are required, and a
\* field that the text gives twice is an error (duplicate field).
DecodeEvent(j) ==
  LET visit_map(o) ==
        IF /\ o.t = "obj"
           /\ \A f \in {Chars("id"), Chars("timestamp"), Chars("duration"),
                        Chars("data")} : ~Repeated(o, f)
           /\ Absent(o, Chars("id")) \/ Member(o, Chars("id")).t = "int"
           /\ HasKey(o, Chars("timestamp"))
           /\ Member(o, Chars("timestamp")).t = "str"
           /\ HasKey(o, Chars("duration"))
           /\ Member(o, Chars("duration")).t \in {"int", "dec"}
           /\ HasKey(o, Chars("data")) /\ Member(o, Chars("data")).t = "obj"
        THEN EventOf(IF Absent(o, Chars("id")) THEN None
                     ELSE Some(Member(o, Chars("id")).n),
                     ParseDateTime(Member(o, Chars("timestamp")).s),
                     Member(o, Chars("duration")),
                     ToMap(Member(o, Chars("data"))))
        ELSE [ok |-> FALSE]
  IN visit_map(visit_seq(j, <<Chars("id"), Chars("timestamp"), Chars("duration"),
                              Chars("data")>>))

\* The keys of a HashMap in the order a walk of it yields them.  The order
\* is unspecified, and every HashMap is built with a RandomState of its own:
\* order lists the keys of this one map as the environment chose for it,
\* whatever it chose for any other map, of the same keys or not.
IterKeys(map, order) == SelectSeq(order, LAMBDA k : k \in DOMAIN map)

\* A to_markdown that writes the label of an absent field with nothing after it.
Bucket_to_markdown_all_labels(b) ==
  Join(<<Chars("## ") \o b.id,
         Chars("- **Client**: ") \o (IF b.client # None THEN b.client[1] ELSE <<>>),
         Chars("- **Type**: ")
         \o (IF b.bucket_type # None THEN b.bucket_type[1] ELSE <<>>),
         Chars("- **Hostname**: ")
         \o (IF b.hostname # None THEN b.hostname[1] ELSE <<>>),
         Chars("- **Created**: ")
         \o (IF b.created # None THEN FormatDateTime(b.created[1]) ELSE <<>>),
         Chars("- **Last Updated**: ")
         \o (IF b.last_updated # None THEN FormatDateTime(b.last_updated[1])
             ELSE <<>>)>>,
       Chars("\n"))

\* Bucket::to_markdown.
Bucket_to_markdown(b) ==
  Join(<<Chars("## ") \o b.id>>
       \o (IF b.client # None
           THEN <<Chars("- **Client**: ") \o b.client[1]>> ELSE <<>>)
       \o (IF b.bucket_type # None
           THEN <<Chars("- **Type**: ") \o b.bucket_type[1]>> ELSE <<>>)
       \o (IF b.hostname # None
           THEN <<Chars("- **Hostname**: ") \o b.hostname[1]>> ELSE <<>>)
       \o (IF b.created # None
           THEN <<Chars("- **Created**: ") \o FormatDateTime(b.created[1])>>
           ELSE <<>>)
       \o (IF b.last_updated # None
           THEN <<Chars("- **Last Updated**: ")
                  \o FormatDateTime(b.last_updated[1])>>
           ELSE <<>>),
       Chars("\n"))

\* Event::to_markdown: the heading, then one line per data field in the
\* iteration order of this event's map; a string value is written bare, any
\* other value by Value's Display.
Event_to_markdown(e, order) ==
  Join(<<Chars("### ") \o FormatDateTime(e.timestamp) \o Chars(" (")
         \o FmtTenths(e.duration) \o Chars("s)")>>
       \o [i \in 1..Len(IterKeys(e.data, order)) |->
             LET key == IterKeys(e.data, order)[i]
             IN Chars("- **") \o key \o Chars("**: ")
                \o (IF e.data[key].t = "str" THEN e.data[key].s
                    ELSE Compact(e.data[key]))],
       Chars("\n"))

\* Serialize for Option<String> and Option<DateTime<Utc>>: null for None.
SerOptString(o) == IF o = None THEN JNull ELSE JStr(o[1])

SerOptDateTime(o) == IF o = None THEN JNull ELSE JStr(SerializeDateTime(o[1]))

\* Serialize for HashMap<String, Value>: the members in the iteration
\* order of this map.
SerMap(map, order) ==
  JFields([i \in 1..Len(IterKeys(map, order)) |->
          <<IterKeys(map, order)[i], map[IterKeys(map, order)[i]]>>])

\* Serialize for Bucket: every field, in declaration order; order is the
\* iteration order of this bucket's data map.
SerializeBucket(b, order) ==
  JFields(<< <<Chars("id"), JStr(b.id)>>,
          <<Chars("client"), SerOptString(b.client)>>,
          <<Chars("type"), SerOptString(b.bucket_type)>>,
          <<Chars("hostname"), SerOptString(b.hostname)>>,
          <<Chars("created"), SerOptDateTime(b.created)>>,
          <<Chars("data"),
            IF b.data = None THEN JNull ELSE SerMap(b.data[1], order)>>,
          <<Chars("last_updated"), SerOptDateTime(b.last_updated)>> >>)

\* Serialize for Event; order is the iteration order of this event's data map.
SerializeEvent(e, order) ==
  JFields(<< <<Chars("id"), IF e.id = None THEN JNull ELSE JInt(e.id[1])>>,
          <<Chars("timestamp"), JStr(SerializeDateTime(e.timestamp))>>,
          <<Chars("duration"), JDec(e.duration)>>,
          <<Chars("data"), SerMap(e.data, order)>> >>)

\* ------------------------------------------------------------ transport client

\* str::trim_end_matches('/').
RECURSIVE trim_end_matches_slash(_)
trim_end_matches_slash(s) ==
  IF s # <<>> /\ s[Len(s)] = "/"
  THEN trim_end_matches_slash(SubSeq(s, 1, Len(s) - 1)) ELSE s

\* ActivityWatchClient::new on the default ACTIVITYWATCH_URL: the base URL.
base_url == trim_end_matches_slash(Chars("http://localhost:5600/api/0"))

\* McpError::invalid_params and McpError::internal_error (JSON-RPC codes).
invalid_params(message) == [code |-> -32602, message |-> message]

internal_error(message) == [code |-> -32603, message |-> message]

\* The outcome of the HTTP exchange, as reqwest reports it.  transport is "ok"
\* when a response arrived; otherwise the kind of reqwest::Error.  The body is
\* one of: raw text that is not JSON, a JSON document (sent pretty-printed),
\* or a body whose read fails.
RawBody(text) == [text |-> text, kind |-> "raw"]

JsonBody(doc) == [kind |-> "json", doc |-> doc]

UnreadableBody == [kind |-> "unreadable"]

\* reqwest::Error's Display for a failure that is neither a timeout nor a
\* connection failure, and for a body that does not decode.
SendErrorText == Chars("error sending request")

DecodeErrorText == Chars("error decoding response body")

\* handle_api_error: reqwest::Error to McpError.
handle_api_error(transport) ==
  IF transport = "timeout"
  THEN internal_error(Chars("Request timed out. Please try again."))
  ELSE IF transport = "connect"
  THEN internal_error(
         Chars("Failed to connect to ActivityWatch. Is aw-server running?"))
  ELSE internal_error(Chars("Network error: ") \o SendErrorText)

\* StatusCode::is_success: 200..=299.
is_success(status) == status >= 200 /\ status <= 299

\* StatusCode::canonical_reason: the reason phrase of a registered status;
\* Display writes <unknown status code> for a status that has none.
canonical_reason(status) ==
  CASE status = 100 -> Chars("Continue")
    [] status = 101 -> Chars("Switching Protocols")
    [] status = 102 -> Chars("Processing")
    [] status = 103 -> Chars("Early Hints")
    [] status = 200 -> Chars("OK")
    [] status = 201 -> Chars("Created")
    [] status = 202 -> Chars("Accepted")
    [] status = 203 -> Chars("Non Authoritative Information")
    [] status = 204 -> Chars("No Content")
    [] status = 205 -> Chars("Reset Content")
    [] status = 206 -> Chars("Partial Content")
    [] status = 207 -> Chars("Multi-Status")
    [] status = 208 -> Chars("Already Reported")
    [] status = 226 -> Chars("IM Used")
    [] status = 300 -> Chars("Multiple Choices")
    [] status = 301 -> Chars("Moved Permanently")
    [] status = 302 -> Chars("Found")
    [] status = 303 -> Chars("See Other")
    [] status = 304 -> Chars("Not Modified")
    [] status = 305 -> Chars("Use Proxy")
    [] status = 307 -> Chars("Temporary Redirect")
    [] status = 308 -> Chars("Permanent Redirect")
    [] status = 400 -> Chars("Bad Request")
    [] status = 401 -> Chars("Unauthorized")
    [] status = 402 -> Chars("Payment Required")
    [] status = 403 -> Chars("Forbidden")
    [] status = 404 -> Chars("Not Found")
    [] status = 405 -> Chars("Method Not Allowed")
    [] status = 406 -> Chars("Not Acceptable")
    [] status = 407 -> Chars("Proxy Authentication Required")
    [] status = 408 -> Chars("Request Timeout")
    [] status = 409 -> Chars("Conflict")
    [] status = 410 -> Chars("Gone")
    [] status = 411 -> Chars("Length Required")
    [] status = 412 -> Chars("Precondition Failed")
    [] status = 413 -> Chars("Payload Too Large")
    [] status = 414 -> Chars("URI Too Long")
    [] status = 415 -> Chars("Unsupported Media Type")
    [] status = 416 -> Chars("Range Not Satisfiable")
    [] status = 417 -> Chars("Expectation Failed")
    [] status = 418 -> Chars("I'm a teapot")
    [] status = 421 -> Chars("Misdirected Request")
    [] status = 422 -> Chars("Unprocessable Entity")
    [] status = 423 -> Chars("Locked")
    [] status = 424 -> Chars("Failed Dependency")
    [] status = 425 -> Chars("Too Early")
    [] status = 426 -> Chars("Upgrade Required")
    [] status = 428 -> Chars("Precondition Required")
    [] status = 429 -> Chars("Too Many Requests")
    [] status = 431 -> Chars("Request Header Fields Too Large")
    [] status = 451 -> Chars("Unavailable For Legal Reasons")
    [] status = 500 -> Chars("Internal Server Error")
    [] status = 501 -> Chars("Not Implemented")
    [] status = 502 -> Chars("Bad Gateway")
    [] status = 503 -> Chars("Service Unavailable")
    [] status = 504 -> Chars("Gateway Timeout")
    [] status = 505 -> Chars("HTTP Version Not Supported")
    [] status = 506 -> Chars("Variant Also Negotiates")
    [] status = 507 -> Chars("Insufficient Storage")
    [] status = 508 -> Chars("Loop Detected")
    [] status = 510 -> Chars("Not Extended")
    [] status = 511 -> Chars("Network Authentication Required")
    [] OTHER -> Chars("<unknown status code>")

\* Display of StatusCode: the number and the canonical reason.
FmtStatus(status) == FmtInt(status) \o <<" ">> \o canonical_reason(status)

RECURSIVE AsWritten(_)
\* A JSON document with every object's members in the order of its text.
AsWritten(doc) ==
  CASE doc.t = "obj" ->
         JFields([i \in 1..Len(doc.m) |-> <<doc.m[i][1], AsWritten(doc.m[i][2])>>])
    [] doc.t = "arr" -> JArr([i \in 1..Len(doc.a) |-> AsWritten(doc.a[i])])
    [] OTHER -> doc

\* response.text().await.unwrap_or_default(): the text the upstream sent (a
\* JSON document is sent pretty-printed, as it is written).
body_text(body) ==
  CASE body.kind = "raw" -> body.text
    [] body.kind = "json" -> Pretty(AsWritten(body.doc), 0)
    [] OTHER -> <<>>

\* Deserialize for a collection: the decoded items when every item decodes,
\* a decode error when one does not.
Collect(items) ==
  IF \A k \in DOMAIN items : items[k].ok
  THEN [ok |-> TRUE, v |-> [k \in DOMAIN items |-> items[k].v]]
  ELSE [ok |-> FALSE]

\* Deserialize for HashMap<String, Bucket>.
DecodeBuckets(map) == Collect([k \in DOMAIN map |-> DecodeBucket(map[k])])

\* Deserialize for the typed shape T of an endpoint: HashMap<String, Bucket>,
\* Bucket, Vec<Event> or i64.  Every entry of a map's text is decoded before
\* it is inserted: one that a later entry of the same key replaces must
\* decode too.
Decode(T, doc) ==
  CASE T = "bucket" -> DecodeBucket(doc)
    [] T = "buckets" ->
         IF /\ doc.t = "obj"
            /\ \A i \in 1..Len(doc.m) :
                 (\E j \in (i + 1)..Len(doc.m) : doc.m[j][1] = doc.m[i][1])
                   => DecodeBucket(doc.m[i][2]).ok
         THEN DecodeBuckets(ToMap(doc)) ELSE [ok |-> FALSE]
    [] T = "events" ->
         IF doc.t = "arr"
         THEN Collect([i \in 1..Len(doc.a) |-> DecodeEvent(doc.a[i])])
         ELSE [ok |-> FALSE]
    [] T = "count" ->
         IF doc.t = "int" THEN [ok |-> TRUE, v |-> doc.n] ELSE [ok |-> FALSE]

\* response.json::<T>().await: the body read, parsed and decoded.
body_json(T, body) ==
  IF body.kind = "json" THEN Decode(T, body.doc) ELSE [ok |-> FALSE]

\* handle_response, the arm of a non-success status: the error the status
\* selects, with the body text in it.
status_error(response) ==
  CASE response.status = 404 ->
         invalid_params(
           Chars("Resource not found. Please check the bucket ID. Details: ")
           \o body_text(response.body))
    [] response.status = 400 ->
         invalid_params(
           Chars("Bad request. Please check your parameters. Details: ")
           \o body_text(response.body))
    [] response.status = 500 ->
         internal_error(Chars("ActivityWatch server error: ")
                        \o body_text(response.body))
    [] OTHER ->
         internal_error(Chars("API request failed with status ")
                        \o FmtStatus(response.status) \o Chars(": ")
                        \o body_text(response.body))

\* response.json().await.map_err(..): the decoded value, or the parse error.
parsed(decoded) ==
  IF decoded.ok THEN [ok |-> TRUE, v |-> decoded.v]
  ELSE [ok |-> FALSE,
        err |-> internal_error(Chars("Failed to parse API response: ")
                               \o DecodeErrorText)]

\* handle_response, the arm of a success status: the body decoded, or the
\* parse error.
decode_body(T, response) == parsed(body_json(T, response.body))

\* A handle_response that decodes first and looks at the status only when
\* the body does not decode.
handle_response_decode_first(T, response) ==
  IF body_json(T, response.body).ok THEN decode_body(T, response)
  ELSE IF ~is_success(response.status)
  THEN [ok |-> FALSE, err |-> status_error(response)]
  ELSE decode_body(T, response)

\* handle_response: the status is checked first; only a success status is
\* decoded.
handle_response(T, response) ==
  IF ~is_success(response.status)
  THEN [ok |-> FALSE, err |-> status_error(response)]
  ELSE decode_body(T, response)

\* .send().await.map_err(handle_api_error)? followed by handle_response: what a
\* client method returns for the outcome of its one exchange.
client_result(T, response) ==
  IF response.transport # "ok"
  THEN [ok |-> FALSE, err |-> handle_api_error(response.transport)]
  ELSE handle_response(T, response)

\* A query string that is "?"-prefixed even when no parameter is present.
with_query_always(url, query_params) ==
  url \o Chars("?") \o Join(query_params, Chars("&"))

\* The query string of get_events and get_event_count: the parameters that are
\* present, "?"-prefixed and "&"-joined; nothing when there is none.
with_query(url, query_params) ==
  IF query_params = <<>> THEN url
  ELSE url \o Chars("?") \o Join(query_params, Chars("&"))

\* The URLs of the four client methods.
get_buckets_url == base_url \o Chars("/buckets/")

get_bucket_url(bucket_id) == base_url \o Chars("/buckets/") \o bucket_id

get_events_url(bucket_id, limit, start, end) ==
  with_query(base_url \o Chars("/buckets/") \o bucket_id \o Chars("/events"),
             (IF limit # None THEN <<Chars("limit=") \o FmtInt(limit[1])>> ELSE <<>>)
             \o (IF start # None THEN <<Chars("start=") \o start[1]>> ELSE <<>>)
             \o (IF end # None THEN <<Chars("end=") \o end[1]>> ELSE <<>>))

get_event_count_url(bucket_id, start, end) ==
  with_query(base_url \o Chars("/buckets/") \o bucket_id \o Chars("/events/count"),
             (IF start # None THEN <<Chars("start=") \o start[1]>> ELSE <<>>)
             \o (IF end # None THEN <<Chars("end=") \o end[1]>> ELSE <<>>))

\* A send that repeats the GET once more.
http_get_twice(log, url) == Append(Append(log, url), url)

\* client.get(url).send(): one GET goes out; the log of requests grows by it.
http_get(log, url) == Append(log, url)

\* reqwest turns the string given to get() into a Url with Url::parse before
\* anything is sent.  The parser first drops what it calls C0 control or space
\* (every character up to ' ') from both ends of the whole input ...
c0_control_or_space(ch) == ch \in {" ", "\t", "\n", "\f", "\r"}

trim_c0_control_and_space(input) ==
  IF \A i \in 1..Len(input) : c0_control_or_space(input[i]) THEN <<>>
  ELSE SubSeq(input,
              CHOOSE i \in 1..Len(input) :
                /\ ~c0_control_or_space(input[i])
                /\ \A k \in 1..(i - 1) : c0_control_or_space(input[k]),
              CHOOSE j \in 1..Len(input) :
                /\ ~c0_control_or_space(input[j])
                /\ \A k \in (j + 1)..Len(input) : c0_control_or_space(input[k]))

\* The characters the path of an http URL is written with percent-encoded
\* (besides everything that is not ASCII, and the backquote, which no string
\* of the model has): the controls, of which the form feed is the one that
\* can be left, and the characters below.
PATH_ENCODE_SET == {"\f", " ", "\"", "<", ">", "{", "}"}

\* One character percent-encoded: its UTF-8 bytes, each as %XX.
utf8_percent_encode(ch, set) ==
  CASE ch = "U+00E9" -> Chars("%C3%A9")
    [] ch = "U+65E5" -> Chars("%E6%97%A5")
    [] ch = "U+3000" -> Chars("%E3%80%80")
    [] ch \notin set -> <<ch>>
    [] ch = "\f" -> Chars("%0C")
    [] ch = " " -> Chars("%20")
    [] ch = "\"" -> Chars("%22")
    [] ch = "'" -> Chars("%27")
    [] ch = "<" -> Chars("%3C")
    [] ch = ">" -> Chars("%3E")
    [] ch = "{" -> Chars("%7B")
    [] OTHER -> Chars("%7D")

RECURSIVE percent_encode(_, _)
percent_encode(s, set) ==
  IF s = <<>> THEN <<>>
  ELSE utf8_percent_encode(Head(s), set) \o percent_encode(Tail(s), set)

\* The first position of a character in a string, or one past its end.
find(s, ch) ==
  IF \E i \in 1..Len(s) : s[i] = ch
  THEN CHOOSE i \in 1..Len(s) : s[i] = ch /\ \A k \in 1..(i - 1) : s[k] # ch
  ELSE Len(s) + 1

RECURSIVE Split(_, _)
\* str::split: the pieces of a string between the occurrences of a character.
Split(s, ch) ==
  IF find(s, ch) > Len(s) THEN <<s>>
  ELSE <<SubSeq(s, 1, find(s, ch) - 1)>>
       \o Split(SubSeq(s, find(s, ch) + 1, Len(s)), ch)

RECURSIVE parse_path(_, _, _)
\* The segments of a path, one after the other: ".." (also written with %2e)
\* takes the last segment back, "." adds nothing, and either leaves an empty
\* segment when it ends the path; any other segment is percent-encoded.
parse_path(segments, i, path) ==
  IF i > Len(segments) THEN path
  ELSE IF segments[i] \in {Chars(".."), Chars(".%2e"), Chars(".%2E"),
                           Chars("%2e."), Chars("%2E."), Chars("%2e%2e"),
                           Chars("%2e%2E"), Chars("%2E%2e"), Chars("%2E%2E")}
  THEN parse_path(segments, i + 1,
                  SubSeq(path, 1, Len(path) - 1)
                  \o (IF i = Len(segments) THEN << <<>> >> ELSE <<>>))
  ELSE IF segments[i] \in {Chars("."), Chars("%2e"), Chars("%2E")}
  THEN parse_path(segments, i + 1,
                  path \o (IF i = Len(segments) THEN << <<>> >> ELSE <<>>))
  ELSE parse_path(segments, i + 1,
                  Append(path, percent_encode(segments[i], PATH_ENCODE_SET)))

\* The path and query of the parsed URL.  Every tab and newline is skipped
\* wherever it stands.  The fragment (from the first "#")
\* is no part of the request; the origin (scheme, host and port of the base
\* URL, which parse to themselves) is skipped.  The first "?" ends the path;
\* in the path of an http URL a backslash is a slash, and a URL without a
\* path has the path "/".  The query is percent-encoded too: the controls,
\* space, double and single quote, "<" and ">".
Url_parse(input) ==
  LET cleaned == SelectSeq(trim_c0_control_and_space(input),
                           LAMBDA ch : ch \notin {"\t", "\n", "\r"})
      request == SubSeq(cleaned, Len(Chars("http://localhost:5600")) + 1,
                        find(cleaned, "#") - 1)
      slashed == [i \in 1..(find(request, "?") - 1) |->
                    IF request[i] = "\\" THEN "/" ELSE request[i]]
  IN [path |-> <<"/">>
               \o Join(parse_path(Split(IF slashed # <<>> /\ slashed[1] = "/"
                                        THEN Tail(slashed) ELSE slashed, "/"),
                                  1, <<>>),
                       <<"/">>),
      query |-> IF find(request, "?") > Len(request) THEN None
                ELSE Some(percent_encode(
                            SubSeq(request, find(request, "?") + 1, Len(request)),
                            {"\f", " ", "\"", "<", ">", "'"}))]

\* ------------------------------------------------------------ tool dispatch

\* CallToolResult::success and CallToolResult::error with one text content.
success(text) == [is_error |-> FALSE, text |-> text]

error(text) == [is_error |-> TRUE, text |-> text]

\* "{:?}" of an McpError (ErrorData derives Debug).
DebugError(e) ==
  Chars("ErrorData { code: ErrorCode(") \o FmtInt(e.code)
  \o Chars("), message: ") \o DebugStr(e.message) \o Chars(", data: None }")

\* The notice truncate_response appends.
TruncationNotice ==
  Chars("\n\n_Response truncated at ") \o FmtInt(CHARACTER_LIMIT)
  \o Chars(" characters. Use more specific filters to reduce results._")

\* truncate_response: the length is counted, and the cut made, in bytes; the
\* slice panics when the cut falls inside a character (ok is FALSE then).
truncate_response(response) ==
  IF ByteLen(response) > CHARACTER_LIMIT
  THEN LET truncated == SliceTo(response, CHARACTER_LIMIT)
       IN IF truncated.ok
          THEN [ok |-> TRUE, v |-> truncated.v \o TruncationNotice]
          ELSE [ok |-> FALSE]
  ELSE [ok |-> TRUE, v |-> response]

\* The emptiness test without the trim.
bucket_id_is_empty(bucket_id) == bucket_id = <<>>

\* params.bucket_id.trim().is_empty().
bucket_id_is_blank(bucket_id) == Trim(bucket_id) = <<>>

\* params.limit.unwrap_or(DEFAULT_EVENTS_LIMIT).
resolve_limit(limit) == IF limit = None THEN DEFAULT_EVENTS_LIMIT ELSE limit[1]

\* The comparison made strict.
limit_exceeded(count, limit) == count > limit

\* events.len() as i32 >= limit (a length below 2^31 is unchanged by the cast).
limit_reached(count, limit) == count >= limit

\* The notice aw_get_events appends when the limit is reached.
LimitNotice(limit) ==
  Chars("_Limit of ") \o FmtInt(limit)
  \o Chars(" reached. Use pagination to see more._")

\* The lines pushed for each item: its rendering, then an empty line.
ItemLines(rendered) ==
  [i \in 1..(2 * Len(rendered)) |->
     IF i % 2 = 1 THEN rendered[(i + 1) \div 2] ELSE <<>>]

\* aw_list_buckets, Markdown arm: the text handed to truncate_response.
\* The buckets come in the iteration order of the map of buckets, ord.top.
list_buckets_markdown(buckets, ord) ==
  Join(<<Chars("# ActivityWatch Buckets"), <<>>,
         Chars("Found ") \o FmtInt(Cardinality(DOMAIN buckets))
         \o Chars(" buckets:"), <<>> >>
       \o ItemLines([i \in 1..Len(IterKeys(buckets, ord.top)) |->
                       Bucket_to_markdown(buckets[IterKeys(buckets, ord.top)[i]])]),
       Chars("\n"))

\* aw_list_buckets, Json arm: to_string_pretty of the map.  The map of
\* buckets is walked in its order, ord.top, and the data map of the i-th
\* bucket of that walk in its own, ord.data[i].
list_buckets_json(buckets, ord) ==
  to_string_pretty(
    JFields([i \in 1..Len(IterKeys(buckets, ord.top)) |->
            <<IterKeys(buckets, ord.top)[i],
              SerializeBucket(buckets[IterKeys(buckets, ord.top)[i]],
                              ord.data[i])>>]))

\* aw_get_bucket, Markdown arm.
get_bucket_markdown(bucket) ==
  Join(<<Chars("# Bucket Details"), <<>>, Bucket_to_markdown(bucket)>>,
       Chars("\n"))

\* aw_get_events, Markdown arm: the text handed to truncate_response.  The
\* data map of the i-th event is walked in its own order, ord.data[i].
get_events_markdown(bucket_id, limit, events, ord) ==
  Join(<<Chars("# Events from ") \o bucket_id, <<>>,
         Chars("Showing ") \o FmtInt(Len(events)) \o Chars(" events:"), <<>> >>
       \o ItemLines([i \in 1..Len(events) |-> Event_to_markdown(events[i], ord.data[i])])
       \o (IF limit_reached(Len(events), limit)
           THEN <<LimitNotice(limit)>> ELSE <<>>),
       Chars("\n"))

\* aw_get_events, Json arm: each event's data map in its own order.
get_events_json(events, ord) ==
  to_string_pretty(
    JArr([i \in 1..Len(events) |-> SerializeEvent(events[i], ord.data[i])]))

\* aw_get_event_count: the summary.
event_count_text(bucket_id, start, end, count) ==
  Join(<<Chars("# Event Count for ") \o bucket_id, <<>>,
         Chars("**Total Events**: ") \o FmtInt(count)>>
       \o (IF start # None THEN <<Chars("**From**: ") \o start[1]>> ELSE <<>>)
       \o (IF end # None THEN <<Chars("**To**: ") \o end[1]>> ELSE <<>>),
       Chars("\n"))

\* What a handler leaves behind: the text assembled for truncate_response
\* (None when the arm assembles none), and the result handed to the caller,
\* or a panic that unwinds the handler before any result exists.
Returned(assembled, result) ==
  [panicked |-> FALSE, assembled |-> assembled, result |-> Some(result)]

Panicked(assembled) ==
  [panicked |-> TRUE, assembled |-> assembled, result |-> None]

\* A human-readable text passed through truncate_response and returned.
Truncated(text) ==
  LET out == truncate_response(text)
  IN IF out.ok THEN Returned(Some(text), success(out.v))
     ELSE Panicked(Some(text))

\* The Err(e) arm of every handler: a tool-level error naming the operation.
failed(prefix, e) == Returned(None, error(prefix \o DebugError(e)))

\* aw_list_buckets after the client call returned got.
aw_list_buckets_finish(format, got, ord) ==
  IF got.ok
  THEN IF format = "markdown" THEN Truncated(list_buckets_markdown(got.v, ord))
       ELSE Returned(None, success(list_buckets_json(got.v, ord)))
  ELSE failed(Chars("Failed to list buckets: "), got.err)

\* aw_get_bucket after the client call returned got.
aw_get_bucket_finish(format, got, ord) ==
  IF got.ok
  THEN IF format = "markdown"
       THEN Returned(None, success(get_bucket_markdown(got.v)))
       ELSE Returned(None,
                     success(to_string_pretty(SerializeBucket(got.v, ord.data[1]))))
  ELSE failed(Chars("Failed to get bucket: "), got.err)

\* aw_get_events with its Json arm passed through truncate_response too.
aw_get_events_finish_truncating(bucket_id, limit, format, got, ord) ==
  IF got.ok
  THEN IF format = "markdown"
       THEN Truncated(get_events_markdown(bucket_id, limit, got.v, ord))
       ELSE Truncated(get_events_json(got.v, ord))
  ELSE failed(Chars("Failed to get events: "), got.err)

\* aw_get_events after the client call returned got.
aw_get_events_finish(bucket_id, limit, format, got, ord) ==
  IF got.ok
  THEN IF format = "markdown"
       THEN Truncated(get_events_markdown(bucket_id, limit, got.v, ord))
       ELSE Returned(None, success(get_events_json(got.v, ord)))
  ELSE failed(Chars("Failed to get events: "), got.err)

\* aw_get_event_count after the client call returned got.
aw_get_event_count_finish(bucket_id, start, end, got) ==
  IF got.ok
  THEN Returned(None, success(event_count_text(bucket_id, start, end, got.v)))
  ELSE failed(Chars("Failed to get event count: "), got.err)

\* The early return of the three handlers that take a bucket id.
EmptyBucketId == error(Chars("Bucket ID cannot be empty"))

\* ------------------------------------------------------------ inputs

\* Explicit limits run over -1..MaxLimit, small event lists over 0..MaxEvents
\* events, and the long texts over the lengths within Slack of the character
\* limit.
MaxLimit == 1

MaxEvents == 2

Slack == 1

Pad(n, c) == [i \in 1..n |-> c]

Formats == {None, Some("markdown"), Some("json")}

BucketIds ==
  {<<>>, Chars(" "), Chars("\t\f "), <<"U+3000">>,
   Chars("aw-watcher-window_host1"), Chars(" b 1 ")}

Limits == {None} \cup {Some(l) : l \in -1..MaxLimit}

Times == {None, Some(Chars("2024-01-01T00:00:00Z"))}

OptionalFields == {"client", "type", "hostname", "created", "data", "last_updated"}

FieldOrder == <<"client", "type", "hostname", "created", "data", "last_updated">>

FieldValue(f) ==
  CASE f = "client" -> JStr(Chars("aw-watcher-window"))
    [] f = "type" -> JStr(Chars("currentwindow"))
    [] f = "hostname" -> JStr(Chars("testhost"))
    [] f = "created" -> JStr(Chars("2024-01-01T00:00:00Z"))
    [] f = "data" -> JObj(<< <<Chars("k"), JStr(Chars("v"))>>,
                             <<Chars("n"), JInt(1)>> >>)
    [] f = "last_updated" -> JStr(Chars("2024-02-29T23:59:59Z"))

\* A Bucket payload with the given id and the optional fields named in present.
BucketDoc(id, present) ==
  JObj(<< <<Chars("id"), JStr(id)>> >>
       \o [i \in 1..Len(SelectSeq(FieldOrder, LAMBDA f : f \in present)) |->
             LET f == SelectSeq(FieldOrder, LAMBDA g : g \in present)[i]
             IN <<Chars(f), FieldValue(f)>>])

\* The same with a hostname of choice and nothing else.
HostDoc(id, hostname) ==
  JObj(<< <<Chars("id"), JStr(id)>>, <<Chars("hostname"), JStr(hostname)>> >>)

\* Payloads that do not have the shape of a Bucket.
BadBucketDocs ==
  {JObj(<< <<Chars("client"), JStr(Chars("aw-watcher-window"))>> >>),
   JObj(<< <<Chars("id"), JInt(7)>> >>),
   JObj(<< <<Chars("id"), JStr(Chars("b1"))>>,
           <<Chars("created"), JStr(Chars("2023-02-29T00:00:00Z"))>> >>),
   JArr(<<>>)}

BucketDocs ==
  {BucketDoc(Chars("b1"), present) : present \in SUBSET OptionalFields}
  \cup {JObj(<< <<Chars("id"), JStr(Chars("b1"))>>,
               <<Chars("client"), JNull>>, <<Chars("hostname"), JNull>>,
               <<Chars("extra"), JInt(1)>> >>),
        HostDoc(Chars("b1"), <<>>),
        HostDoc(Chars("b1"), <<"c", "a", "f", "U+00E9", "\"">>)}

\* The length in bytes of list_buckets' text for one bucket "big" whose
\* hostname is empty: what a hostname adds its own length to.
ListOverhead ==
  ByteLen(list_buckets_markdown(
            Decode("buckets", JObj(<< <<Chars("big"), HostDoc(Chars("big"), <<>>)>> >>)).v,
            [data |-> << <<>> >>, top |-> <<Chars("big")>>]))

\* Hostnames that bring list_buckets' text to the character limit and around
\* it: ASCII ones, and ones of two-byte characters in which the limit falls
\* on a character boundary or inside a character.
LongHostnames ==
  {Pad(CHARACTER_LIMIT - ListOverhead + d, "a") : d \in -Slack..Slack}
  \cup {Pad(p, "a") \o Pad((CHARACTER_LIMIT - ListOverhead) \div 2 + d, "U+00E9") :
          p \in 0..1, d \in 0..Slack}

BucketsDocs ==
  {JObj(<<>>),
   JObj(<< <<Chars("b1"), BucketDoc(Chars("b1"), OptionalFields)>> >>),
   JObj(<< <<Chars("b1"), BucketDoc(Chars("b1"), OptionalFields)>>,
           <<Chars("b2"), BucketDoc(Chars("b2"), {"data"})>> >>)}
  \cup {JObj(<< <<Chars("big"), HostDoc(Chars("big"), h)>> >>) : h \in LongHostnames}

\* The i-th event of a payload: a full one, then a minimal one, in turn.
EventDoc(i) ==
  IF i % 2 = 1
  THEN JObj(<< <<Chars("id"), JInt(i)>>,
               <<Chars("timestamp"), JStr(Chars("2024-01-01T12:00:00Z"))>>,
               <<Chars("duration"), JDec(605)>>,
               <<Chars("data"), JObj(<< <<Chars("app"), JStr(Chars("Firefox"))>>,
                                        <<Chars("n"), JInt(3)>> >>)>> >>)
  ELSE JObj(<< <<Chars("timestamp"), JStr(Chars("2024-01-01T12:01:00Z"))>>,
               <<Chars("duration"), JInt(0)>>,
               <<Chars("data"), JObj(<<>>)>> >>)

\* The first n events.
RECURSIVE Events(_)
Events(n) == IF n = 0 THEN <<>> ELSE Append(Events(n - 1), EventDoc(n))

\* n minimal events.
RECURSIVE PlainEvents(_)
PlainEvents(n) == IF n = 0 THEN <<>> ELSE Append(PlainEvents(n - 1), EventDoc(2))

\* One event with the given title.
LongEventsDoc(title) ==
  JArr(<<JObj(<< <<Chars("timestamp"), JStr(Chars("2024-01-01T12:00:00Z"))>>,
                 <<Chars("duration"), JDec(15)>>,
                 <<Chars("data"),
                   JObj(<< <<Chars("title"), JStr(title)>> >>)>> >>)>>)

\* The event lists the upstream returns: short ones, one of two events whose
\* data maps have the same two keys, ones around the default limit, and
\* ones of a single event whose title alone goes over the character limit,
\* one in ASCII and one in two-byte characters, the limit falling inside one
\* of them.
EventsDocs ==
  {JArr(Events(n)) : n \in 0..MaxEvents}
  \cup {JArr(<<EventDoc(1), EventDoc(3)>>)}
  \cup {JArr(PlainEvents(n)) :
          n \in (DEFAULT_EVENTS_LIMIT - 1)..(DEFAULT_EVENTS_LIMIT + 1)}
  \cup {LongEventsDoc(Pad(CHARACTER_LIMIT, "a")),
        LongEventsDoc(<<"a">> \o Pad(CHARACTER_LIMIT \div 2, "U+00E9"))}

\* The payloads of an endpoint: well-shaped and not.
Docs(T) ==
  CASE T = "bucket" -> BucketDocs \cup BadBucketDocs
    [] T = "buckets" ->
         BucketsDocs
         \cup {JObj(<< <<Chars("b1"),
                         JObj(<< <<Chars("client"), JStr(Chars("x"))>> >>)>> >>),
               JArr(<<>>)}
    [] T = "events" ->
         EventsDocs
         \cup {JArr(<<JObj(<< <<Chars("timestamp"),
                                JStr(Chars("2024-01-01T12:00:00Z"))>>,
                              <<Chars("data"), JObj(<<>>)>> >>)>>),
               JObj(<<>>)}
    [] T = "count" -> {JInt(0), JInt(42), JStr(Chars("42")), JDec(425)}

\* A small well-shaped payload of an endpoint.
SmallDoc(T) ==
  CASE T = "bucket" -> BucketDoc(Chars("b1"), {"client"})
    [] T = "buckets" -> JObj(<< <<Chars("b1"), BucketDoc(Chars("b1"), {})>> >>)
    [] T = "events" -> JArr(Events(1))
    [] T = "count" -> JInt(42)

\* Bodies that are not JSON, or cannot be read.
OtherBodies ==
  {RawBody(<<>>), RawBody(Chars("Not Found")),
   RawBody(Chars("<h1>Bad\tGateway</h1>\n")), UnreadableBody}

\* The bodies an error status comes with.
ErrorBodies(T) ==
  OtherBodies
  \cup {JsonBody(JObj(<< <<Chars("message"), JStr(Chars("no such bucket"))>> >>)),
        JsonBody(SmallDoc(T))}

ErrorStatuses == {400, 401, 404, 500, 503}

Failure(transport) ==
  [transport |-> transport, status |-> 0, body |-> UnreadableBody]

Response(status, body) == [transport |-> "ok", status |-> status, body |-> body]

\* Every outcome of the one exchange with the upstream that the model offers.
Responses(T) ==
  {Failure(t) : t \in {"timeout", "connect", "other"}}
  \cup {Response(200, JsonBody(d)) : d \in Docs(T)}
  \cup {Response(200, b) : b \in OtherBodies}
  \cup {Response(204, RawBody(<<>>))}
  \cup {Response(st, b) : st \in ErrorStatuses, b \in ErrorBodies(T)}

\* Every choice of an iteration order for each map of a sequence of maps:
\* any order of its keys for each, whatever the orders of the others.
RECURSIVE MapOrders(_)
MapOrders(maps) ==
  LET Perms(keys) ==
        {o \in [1..Cardinality(keys) -> keys] :
           \A i, j \in 1..Cardinality(keys) : i # j => o[i] # o[j]}
  IN IF maps = <<>> THEN {<<>>}
     ELSE {<<o>> \o rest : o \in Perms(DOMAIN Head(maps)),
                           rest \in MapOrders(Tail(maps))}

\* The orders in which a run may iterate the HashMaps of the value it
\* decoded: top, the order of the map of buckets (list_buckets only), and
\* data, one order for the data map of each bucket (in the order of top) or
\* of each event; a bucket without data has no map to walk.
Orders(T, got) ==
  IF got.ok /\ T = "buckets"
  THEN UNION {{[data |-> d, top |-> t[1]] :
                 d \in MapOrders([i \in 1..Len(t[1]) |->
                                    IF got.v[t[1][i]].data = None THEN <<>>
                                    ELSE got.v[t[1][i]].data[1]])} :
              t \in MapOrders(<<got.v>>)}
  ELSE IF got.ok /\ T = "bucket"
  THEN {[data |-> d, top |-> <<>>] :
          d \in MapOrders(<<IF got.v.data = None THEN <<>> ELSE got.v.data[1]>>)}
  ELSE IF got.ok /\ T = "events"
  THEN {[data |-> d, top |-> <<>>] :
          d \in MapOrders([i \in 1..Len(got.v) |-> got.v[i].data])}
  ELSE {[data |-> <<>>, top |-> <<>>]}

\* ------------------------------------------------------------ state

VARIABLES
  pc,         \* "idle", "awaiting" (the GET is in flight), "reading" (the
              \* response is there, its body is being read), "done", "panicked"
  tool,       \* the tool being invoked, "none" when idle
  args,       \* the arguments of the call, optional ones as Options
  requests,   \* the URLs of the GETs this invocation has sent, in order
  status,     \* Some(status of the response) once send() has answered with one
  response,   \* Some(outcome of the exchange) once it is known, body and all
  ord,        \* the iteration order of each of the run's HashMaps
  assembled,  \* Some(text handed to truncate_response), if any was
  result      \* Some(CallToolResult) once the handler has returned

vars == <<pc, tool, args, requests, status, response, ord, assembled, result>>

Init ==
  /\ pc = "idle"
  /\ tool = "none"
  /\ args = None
  /\ requests = <<>>
  /\ status = None
  /\ response = None
  /\ ord = [data |-> <<>>, top |-> <<>>]
  /\ assembled = None
  /\ result = None

\* A handler that reaches its client call: the GET goes out and it awaits.
Await(name, a, url) ==
  /\ pc' = "awaiting"
  /\ tool' = name
  /\ args' = a
  /\ requests' = http_get(requests, url)
  /\ UNCHANGED <<status, response, ord, assembled, result>>

\* A handler that returns before any client call.
ReturnEarly(name, a, r) ==
  /\ pc' = "done"
  /\ tool' = name
  /\ args' = a
  /\ result' = Some(r)
  /\ UNCHANGED <<requests, status, response, ord, assembled>>

\* send() has answered with a response: handle_response takes its status
\* and awaits its body, response.json() for a success status and
\* response.text() for any other.  The handler is suspended once more, with
\* the status, without a body and without a result.
Suspend(st) ==
  /\ pc' = "reading"
  /\ status' = Some(st)
  /\ UNCHANGED <<tool, args, requests, response, ord, assembled, result>>

\* A handler resumed with the outcome of its exchange, the failure of send()
\* or the response whose body has now been read, runs to its end.
Finish(resp, o, out) ==
  /\ pc' = IF out.panicked THEN "panicked" ELSE "done"
  /\ response' = Some(resp)
  /\ ord' = o
  /\ assembled' = out.assembled
  /\ result' = out.result
  /\ UNCHANGED <<tool, args, requests, status>>

\* aw_list_buckets up to its await.
aw_list_buckets(format) ==
  /\ pc = "idle"
  /\ Await("aw_list_buckets", [response_format |-> format], get_buckets_url)

\* aw_list_buckets resumed by the answer of send(): a failure of the
\* exchange is the error it returns; a response leaves it awaiting the body.
aw_list_buckets_resume(resp) ==
  /\ pc = "awaiting" /\ tool = "aw_list_buckets"
  /\ IF resp.transport # "ok"
     THEN Finish(resp, [data |-> <<>>, top |-> <<>>],
                 aw_list_buckets_finish(response_format_of(args.response_format),
                                        client_result("buckets", resp),
                                        [data |-> <<>>, top |-> <<>>]))
     ELSE Suspend(resp.status)

\* aw_list_buckets resumed by the body of the response, to its return.
aw_list_buckets_body(resp) ==
  /\ pc = "reading" /\ tool = "aw_list_buckets"
  /\ resp.transport = "ok" /\ status = Some(resp.status)
  /\ LET got == client_result("buckets", resp)
     IN \E o \in Orders("buckets", got) :
          Finish(resp, o,
                 aw_list_buckets_finish(response_format_of(args.response_format),
                                        got, o))

\* aw_get_bucket up to its await, or to its early return.
aw_get_bucket(bucket_id, format) ==
  /\ pc = "idle"
  /\ LET a == [bucket_id |-> bucket_id, response_format |-> format]
     IN IF bucket_id_is_blank(bucket_id)
        THEN ReturnEarly("aw_get_bucket", a, EmptyBucketId)
        ELSE Await("aw_get_bucket", a, get_bucket_url(bucket_id))

\* aw_get_bucket resumed by the answer of send(): a failure of the
\* exchange is the error it returns; a response leaves it awaiting the body.
aw_get_bucket_resume(resp) ==
  /\ pc = "awaiting" /\ tool = "aw_get_bucket"
  /\ IF resp.transport # "ok"
     THEN Finish(resp, [data |-> <<>>, top |-> <<>>],
                 aw_get_bucket_finish(response_format_of(args.response_format),
                                      client_result("bucket", resp),
                                      [data |-> <<>>, top |-> <<>>]))
     ELSE Suspend(resp.status)

\* aw_get_bucket resumed by the body of the response, to its return.
aw_get_bucket_body(resp) ==
  /\ pc = "reading" /\ tool = "aw_get_bucket"
  /\ resp.transport = "ok" /\ status = Some(resp.status)
  /\ LET got == client_result("bucket", resp)
     IN \E o \in Orders("bucket", got) :
          Finish(resp, o,
                 aw_get_bucket_finish(response_format_of(args.response_format),
                                      got, o))

\* aw_get_events up to its await, or to its early return.  The resolved
\* limit, not the optional one, goes into the query.
aw_get_events(bucket_id, limit, start, end, format) ==
  /\ pc = "idle"
  /\ LET a == [bucket_id |-> bucket_id, limit |-> limit, start |-> start,
               end |-> end, response_format |-> format]
     IN IF bucket_id_is_blank(bucket_id)
        THEN ReturnEarly("aw_get_events", a, EmptyBucketId)
        ELSE Await("aw_get_events", a,
                   get_events_url(bucket_id, Some(resolve_limit(limit)),
                                  start, end))

\* aw_get_events resumed by the answer of send(): a failure of the
\* exchange is the error it returns; a response leaves it awaiting the body.
aw_get_events_resume(resp) ==
  /\ pc = "awaiting" /\ tool = "aw_get_events"
  /\ IF resp.transport # "ok"
     THEN Finish(resp, [data |-> <<>>, top |-> <<>>],
                 aw_get_events_finish(args.bucket_id, resolve_limit(args.limit),
                                      response_format_of(args.response_format),
                                      client_result("events", resp),
                                      [data |-> <<>>, top |-> <<>>]))
     ELSE Suspend(resp.status)

\* aw_get_events resumed by the body of the response, to its return.
aw_get_events_body(resp) ==
  /\ pc = "reading" /\ tool = "aw_get_events"
  /\ resp.transport = "ok" /\ status = Some(resp.status)
  /\ LET got == client_result("events", resp)
     IN \E o \in Orders("events", got) :
          Finish(resp, o,
                 aw_get_events_finish(args.bucket_id, resolve_limit(args.limit),
                                      response_format_of(args.response_format),
                                      got, o))

\* aw_get_event_count up to its await, or to its early return.
aw_get_event_count(bucket_id, start, end) ==
  /\ pc = "idle"
  /\ LET a == [bucket_id |-> bucket_id, start |-> start, end |-> end]
     IN IF bucket_id_is_blank(bucket_id)
        THEN ReturnEarly("aw_get_event_count", a, EmptyBucketId)
        ELSE Await("aw_get_event_count", a,
                   get_event_count_url(bucket_id, start, end))

\* aw_get_event_count resumed by the answer of send(): a failure of the
\* exchange is the error it returns; a response leaves it awaiting the body.
aw_get_event_count_resume(resp) ==
  /\ pc = "awaiting" /\ tool = "aw_get_event_count"
  /\ IF resp.transport # "ok"
     THEN Finish(resp, [data |-> <<>>, top |-> <<>>],
                 aw_get_event_count_finish(args.bucket_id, args.start, args.end,
                                           client_result("count", resp)))
     ELSE Suspend(resp.status)

\* aw_get_event_count resumed by the body of the response, to its return.
aw_get_event_count_body(resp) ==
  /\ pc = "reading" /\ tool = "aw_get_event_count"
  /\ resp.transport = "ok" /\ status = Some(resp.status)
  /\ Finish(resp, [data |-> <<>>, top |-> <<>>],
            aw_get_event_count_finish(args.bucket_id, args.start, args.end,
                                      client_result("count", resp)))

\* The invocation is over (its result delivered, or its task gone with the
\* panic); the server takes the next call.
NextCall ==
  /\ pc \in {"done", "panicked"}
  /\ pc' = "idle"
  /\ tool' = "none"
  /\ args' = None
  /\ requests' = <<>>
  /\ status' = None
  /\ response' = None
  /\ ord' = [data |-> <<>>, top |-> <<>>]
  /\ assembled' = None
  /\ result' = None

Next ==
  \/ \E f \in Formats : aw_list_buckets(f)
  \/ \E r \in Responses("buckets") : aw_list_buckets_resume(r)
  \/ \E r \in Responses("buckets") : aw_list_buckets_body(r)
  \/ \E id \in BucketIds, f \in Formats : aw_get_bucket(id, f)
  \/ \E r \in Responses("bucket") : aw_get_bucket_resume(r)
  \/ \E r \in Responses("bucket") : aw_get_bucket_body(r)
  \/ \E id \in BucketIds, l \in Limits, s \in Times, e \in Times, f \in Formats :
       aw_get_events(id, l, s, e, f)
  \/ \E r \in Responses("events") : aw_get_events_resume(r)
  \/ \E r \in Responses("events") : aw_get_events_body(r)
  \/ \E id \in BucketIds, s \in Times, e \in Times : aw_get_event_count(id, s, e)
  \/ \E r \in Responses("count") : aw_get_event_count_resume(r)
  \/ \E r \in Responses("count") : aw_get_event_count_body(r)
  \/ NextCall

Spec == Init /\ [][Next]_vars

\* ------------------------------------------------------------ client alone

\* ActivityWatchClient::get_events called directly, with each of its optional
\* parameters present or not, up to the await of send().
get_events(bucket_id, limit, start, end) ==
  /\ pc = "idle"
  /\ Await("get_events",
           [bucket_id |-> bucket_id, limit |-> limit, start |-> start, end |-> end],
           get_events_url(bucket_id, limit, start, end))

\* ActivityWatchClient::get_event_count called directly, up to the await.
get_event_count(bucket_id, start, end) ==
  /\ pc = "idle"
  /\ Await("get_event_count",
           [bucket_id |-> bucket_id, start |-> start, end |-> end],
           get_event_count_url(bucket_id, start, end))

\* The client method resumed by the answer of send(): a failure of the
\* exchange is the Err it returns; a response goes to handle_response, which
\* awaits its body.
client_resume(name, T, resp) ==
  /\ pc = "awaiting" /\ tool = name
  /\ IF resp.transport # "ok"
     THEN /\ pc' = "done"
          /\ response' = Some(resp)
          /\ result' = Some(client_result(T, resp))
          /\ UNCHANGED <<tool, args, requests, status, ord, assembled>>
     ELSE Suspend(resp.status)

\* The client method resumed by the body of the response: the Result that
\* handle_response gives and the method returns to its caller.
client_return(name, T, resp) ==
  /\ pc = "reading" /\ tool = name
  /\ resp.transport = "ok" /\ status = Some(resp.status)
  /\ pc' = "done"
  /\ response' = Some(resp)
  /\ result' = Some(client_result(T, resp))
  /\ UNCHANGED <<tool, args, requests, status, ord, assembled>>

ClientNext ==
  \/ \E id \in BucketIds, l \in Limits, s \in Times, e \in Times :
       get_events(id, l, s, e)
  \/ \E r \in Responses("events") : client_resume("get_events", "events", r)
  \/ \E r \in Responses("events") : client_return("get_events", "events", r)
  \/ \E id \in BucketIds, s \in Times, e \in Times : get_event_count(id, s, e)
  \/ \E r \in Responses("count") : client_resume("get_event_count", "count", r)
  \/ \E r \in Responses("count") : client_return("get_event_count", "count", r)
  \/ NextCall

ClientSpec == Init /\ [][ClientNext]_vars

\* ------------------------------------------------------------ properties

\* The tools that take a bucket id, and the typed shape each tool decodes.
BucketIdTools == {"aw_get_bucket", "aw_get_events", "aw_get_event_count"}

ShapeOf(name) ==
  CASE name = "aw_list_buckets" -> "buckets"
    [] name = "aw_get_bucket" -> "bucket"
    [] name = "aw_get_events" -> "events"
    [] name = "aw_get_event_count" -> "count"

\* A bucket id that is empty or made of whitespace only.
AllWhitespace(s) == \A i \in 1..Len(s) : IsWhitespace(s[i])

\* The invocation has ended with a result in the caller's hands.
Done == pc = "done" /\ result # None

\* C1: get_bucket, get_events and get_event_count called with an empty or
\* whitespace-only bucket_id send no HTTP request and return the tool-level
\* error "Bucket ID cannot be empty", whatever the other parameters are.
C1_BlankBucketIdRejected ==
  (tool \in BucketIdTools /\ AllWhitespace(args.bucket_id))
    => /\ pc = "done"
       /\ requests = <<>>
       /\ response = None
       /\ result = Some([is_error |-> TRUE,
                         text |-> Chars("Bucket ID cannot be empty")])

\* C1 witness: get_events, called with a whitespace-only id and a limit, a
\* start and a format, has returned the error.
C1_Witness ==
  /\ pc = "done"
  /\ tool = "aw_get_events"
  /\ args.bucket_id = Chars("\t\f ")
  /\ args.limit # None /\ args.start # None /\ args.response_format # None
  /\ result # None /\ result[1].is_error
  /\ requests = <<>>

\* C2 (as claimed): whatever the outcome of the upstream call, the
\* invocation ends with a tool-level result that carries text, an error
\* result with a message when the call failed.
C2_EveryOutcomeYieldsResult ==
  response # None
    => /\ pc = "done"
       /\ result # None
       /\ result[1].text # <<>>
       /\ (response[1].transport # "ok" \/ ~(response[1].status \in 200..299))
            => result[1].is_error

\* C3: an invocation sends at most one HTTP request; a timeout, a connection
\* failure, a non-success status or a decode failure is reported after that
\* one request, with no second one.
C3_AtMostOneRequest ==
  /\ Len(requests) <= 1
  /\ (Done /\ response # None /\ result[1].is_error) => Len(requests) = 1
  /\ pc = "awaiting" => Len(requests) = 1

\* C3 witness: a timed-out get_events has returned its error after one request.
C3_Witness ==
  /\ Done
  /\ tool = "aw_get_events"
  /\ response # None /\ response[1].transport = "timeout"
  /\ result[1].is_error
  /\ Contains(result[1].text, Chars("Request timed out"))
  /\ Len(requests) = 1

\* The handler has run to its end or to a panic.
Ended == pc \in {"done", "panicked"}

\* The exchange succeeded: a response with a success status whose body
\* decodes into the shape the tool expects.
UpstreamOk ==
  /\ response # None
  /\ response[1].transport = "ok"
  /\ response[1].status \in 200..299
  /\ response[1].body.kind = "json"
  /\ Decode(ShapeOf(tool), response[1].body.doc).ok

\* The value the tool decoded.
Decoded == Decode(ShapeOf(tool), response[1].body.doc).v

\* The call asks for the human-readable format, by name or by default.
HumanReadable == args.response_format # Some("json")

\* The limit the claim resolves: the caller's, or 100.
ClaimedLimit == IF args.limit = None THEN 100 ELSE args.limit[1]

\* C4 (as claimed): in the human-readable output of a successful get_events
\* call the "limit reached" notice appears if and only if the number of
\* events returned is at least the resolved limit.
C4_NoticeIffLimitReached ==
  (Done /\ tool = "aw_get_events" /\ UpstreamOk /\ HumanReadable)
    => (Contains(result[1].text, LimitNotice(ClaimedLimit))
          <=> Len(Decoded) >= ClaimedLimit)

\* C4 (amended): the resolved limit, the caller's or 100, is the one sent
\* upstream; the text get_events assembles for a successful call ends with
\* the notice if and only if the number of events returned is at least the
\* resolved limit; the notice appears in the output if and only if, besides,
\* the truncation rule hands the assembled text back whole.  Where the rule
\* cuts the text the notice at its end is lost, and where the cut aborts the
\* call there is no output at all.
C4_NoticeBeforeTruncation ==
  (Ended /\ tool = "aw_get_events" /\ UpstreamOk /\ HumanReadable)
    => /\ requests = <<get_events_url(args.bucket_id, Some(ClaimedLimit),
                                      args.start, args.end)>>
       /\ assembled # None
       /\ EndsWith(assembled[1], LimitNotice(ClaimedLimit))
            <=> Len(Decoded) >= ClaimedLimit
       /\ pc = "done"
            => /\ result # None /\ ~result[1].is_error
               /\ Contains(result[1].text, LimitNotice(ClaimedLimit))
                    <=> (Len(Decoded) >= ClaimedLimit
                         /\ result[1].text = assembled[1])
       /\ pc = "panicked" => result = None

\* C4 witness: with no limit supplied and 100 events returned, the output
\* ends with the notice for 100.
C4_Witness ==
  /\ Done /\ tool = "aw_get_events" /\ UpstreamOk /\ HumanReadable
  /\ args.limit = None
  /\ Len(Decoded) = 100
  /\ EndsWith(result[1].text, Chars("_Limit of 100 reached. Use pagination to see more._"))

\* C5 (as claimed): a text passed through the truncation rule comes out as
\* its first 25,000 characters followed by the truncation notice when it is
\* longer than 25,000 characters, and unchanged otherwise; no cut splits a
\* character (so a result always comes out).
C5_TruncatedAtCharacterLimit ==
  (Ended /\ assembled # None)
    => /\ Done
       /\ result[1].text
            = IF Len(assembled[1]) > 25000
              THEN SubSeq(assembled[1], 1, 25000) \o TruncationNotice
              ELSE assembled[1]

\* C6: with the JSON format chosen, the success payload of list_buckets,
\* get_bucket and get_events is the whole pretty-printed encoding of the
\* decoded value, each of its maps written in the order the run walked it:
\* the text is handed to no truncation, whatever its length, so it is cut
\* nowhere (it runs to the bracket that closes the value) and carries no
\* truncation notice.
C6_JsonNeverTruncated ==
  (Ended /\ tool \in {"aw_list_buckets", "aw_get_bucket", "aw_get_events"}
     /\ UpstreamOk /\ args.response_format = Some("json"))
    => /\ Done
       /\ ~result[1].is_error
       /\ assembled = None
       /\ ord \in Orders(ShapeOf(tool), [ok |-> TRUE, v |-> Decoded])
       /\ result[1].text
            = CASE tool = "aw_list_buckets" -> list_buckets_json(Decoded, ord)
                [] tool = "aw_get_bucket" ->
                     to_string_pretty(SerializeBucket(Decoded, ord.data[1]))
                [] tool = "aw_get_events" -> get_events_json(Decoded, ord)
       /\ StartsWith(result[1].text,
                     IF tool = "aw_get_events" THEN <<"[">> ELSE <<"{">>)
       /\ EndsWith(result[1].text,
                   IF tool = "aw_get_events" THEN <<"]">> ELSE <<"}">>)
       /\ ~Contains(result[1].text, TruncationNotice)

\* C6 witness: get_events has returned a JSON payload longer than the limit.
C6_Witness ==
  /\ Done /\ tool = "aw_get_events" /\ UpstreamOk
  /\ args.response_format = Some("json")
  /\ ~result[1].is_error
  /\ ByteLen(result[1].text) > 25000

\* A response arrived and its status is not a success code.
StatusFailure ==
  /\ response # None
  /\ response[1].transport = "ok"
  /\ ~(response[1].status \in 200..299)

\* C7 (as claimed): a non-success status always yields an error result that
\* names the class of the status (404 not found, 400 bad request, 500 server
\* error, anything else the status number) and carries the response body;
\* for get_bucket the 404 result contains "not found" and the raw body.
C7_StatusErrorCarriesRawBody ==
  (Done /\ StatusFailure)
    => /\ result[1].is_error
       /\ Contains(result[1].text,
                   CASE response[1].status = 404 -> Chars("not found")
                     [] response[1].status = 400 -> Chars("Bad request")
                     [] response[1].status = 500 -> Chars("server error")
                     [] OTHER -> Chars("request failed with status ")
                                 \o FmtInt(response[1].status))
       /\ Contains(result[1].text, body_text(response[1].body))

\* C8: transport failure, then status, then decode.  A success result (or a
\* text that reaches truncation) needs a transport that succeeded, a success
\* status and a body that decodes; a non-success status is never decoded,
\* whatever its body; a success status whose body does not decode gives the
\* "Failed to parse API response" error with the decoder's message.
C8_TransportStatusDecodeOrder ==
  (Ended /\ response # None)
    => /\ (pc = "panicked" \/ ~result[1].is_error) => UpstreamOk
       /\ response[1].transport # "ok"
            => /\ Done /\ result[1].is_error
               /\ ~Contains(result[1].text, Chars("Failed to parse API response"))
               /\ ~Contains(result[1].text, Chars("Details: "))
       /\ StatusFailure
            => /\ Done /\ result[1].is_error
               /\ ~Contains(result[1].text, Chars("Failed to parse API response"))
       /\ (response[1].transport = "ok" /\ ~StatusFailure /\ ~UpstreamOk)
            => /\ Done /\ result[1].is_error
               /\ Contains(result[1].text,
                           Chars("Failed to parse API response: ")
                           \o DecodeErrorText)

\* C8 witness: a 404 whose body would decode as a Bucket has given an error,
\* not the bucket.
C8_Witness ==
  /\ Done /\ tool = "aw_get_bucket" /\ StatusFailure
  /\ response[1].status = 404
  /\ response[1].body.kind = "json"
  /\ Decode("bucket", response[1].body.doc).ok
  /\ result[1].is_error

\* What the handler of the running tool leaves behind under a given format
\* when its maps are walked in the given orders.
OutcomeWith(format, orders) ==
  CASE tool = "aw_list_buckets" ->
         aw_list_buckets_finish(format, client_result("buckets", response[1]),
                                orders)
    [] tool = "aw_get_bucket" ->
         aw_get_bucket_finish(format, client_result("bucket", response[1]),
                              orders)
    [] tool = "aw_get_events" ->
         aw_get_events_finish(args.bucket_id, resolve_limit(args.limit), format,
                              client_result("events", response[1]), orders)

\* The first line of each tool's human-readable text.
MarkdownHeading ==
  CASE tool = "aw_list_buckets" -> Chars("# ActivityWatch Buckets\n")
    [] tool = "aw_get_bucket" -> Chars("# Bucket Details\n")
    [] tool = "aw_get_events" ->
         Chars("# Events from ") \o args.bucket_id \o Chars("\n")

\* C9: a call of list_buckets, get_bucket or get_events that omits
\* response_format ends as the same call with response_format markdown
\* does when each map is walked in the same order: with the same result,
\* or the same abort.  Its success payload is the human-readable text (it
\* opens with the tool's markdown heading, and list_buckets and get_events
\* hand it to truncation), and it is the JSON payload under no order of
\* the maps.
C9_DefaultFormatIsMarkdown ==
  (Ended /\ tool \in {"aw_list_buckets", "aw_get_bucket", "aw_get_events"}
     /\ response # None /\ args.response_format = None)
    => /\ result = OutcomeWith("markdown", ord).result
       /\ (pc = "panicked") = OutcomeWith("markdown", ord).panicked
       /\ UpstreamOk
            => /\ (assembled # None) = (tool # "aw_get_bucket")
               /\ assembled # None => StartsWith(assembled[1], MarkdownHeading)
               /\ Done => /\ ~result[1].is_error
                           /\ StartsWith(result[1].text, MarkdownHeading)
               /\ \A o \in Orders(ShapeOf(tool), [ok |-> TRUE, v |-> Decoded]) :
                     result # OutcomeWith("json", o).result

\* C9 witness: get_bucket without a format has returned the markdown text.
C9_Witness ==
  /\ Done /\ tool = "aw_get_bucket" /\ UpstreamOk
  /\ args.response_format = None
  /\ ~result[1].is_error
  /\ StartsWith(result[1].text, Chars("# Bucket Details"))

\* An optional field is present in a Bucket payload: a member that is not null.
Present(doc, f) == HasKey(doc, Chars(f)) /\ Member(doc, Chars(f)) # JNull

\* The number of lines of a text that start with a prefix.
LinesWith(text, prefix) ==
  Cardinality({i \in 0..Len(text) :
                 /\ i = 0 \/ text[i] = "\n"
                 /\ StartsWith(SubSeq(text, i + 1, Len(text)), prefix)})

\* The fields to_markdown writes, and the label of each.
RenderedFields == {"client", "type", "hostname", "created", "last_updated"}

LabelOf(f) ==
  CASE f = "client" -> Chars("- **Client**: ")
    [] f = "type" -> Chars("- **Type**: ")
    [] f = "hostname" -> Chars("- **Hostname**: ")
    [] f = "created" -> Chars("- **Created**: ")
    [] f = "last_updated" -> Chars("- **Last Updated**: ")

\* A Bucket payload with its id and any subset of the optional fields.
PartialBucket(doc) ==
  doc \in {BucketDoc(Chars("b1"), present) : present \in SUBSET OptionalFields}

\* C10 (as claimed): a Bucket payload missing any subset of client, type,
\* hostname, created, metadata and last-updated decodes, and its rendering
\* is the id heading followed by exactly one labeled line for each of the
\* six that is present and none for each that is absent.
C10_OneLinePerPresentField ==
  (Ended /\ tool = "aw_get_bucket" /\ response # None
     /\ response[1].transport = "ok" /\ response[1].status = 200
     /\ response[1].body.kind = "json" /\ PartialBucket(response[1].body.doc)
     /\ HumanReadable)
    => /\ Done /\ ~result[1].is_error
       /\ StartsWith(result[1].text, Chars("# Bucket Details\n\n## b1"))
       /\ LinesWith(result[1].text, Chars("- **"))
            = Cardinality({f \in OptionalFields : Present(response[1].body.doc, f)})
       /\ LinesWith(result[1].text, <<>>)
            = 3 + Cardinality({f \in OptionalFields :
                                 Present(response[1].body.doc, f)})

\* C10 (amended): such a payload decodes, and its rendering is the id
\* heading followed by exactly one labeled line for each of client, type,
\* hostname, created and last-updated that is present and none for each of
\* them that is absent; the metadata is never rendered, present or not.
C10_OneLinePerRenderedField ==
  (Ended /\ tool = "aw_get_bucket" /\ response # None
     /\ response[1].transport = "ok" /\ response[1].status = 200
     /\ response[1].body.kind = "json" /\ PartialBucket(response[1].body.doc)
     /\ HumanReadable)
    => /\ Done /\ ~result[1].is_error
       /\ StartsWith(result[1].text, Chars("# Bucket Details\n\n## b1"))
       /\ \A f \in RenderedFields :
            LinesWith(result[1].text, LabelOf(f))
              = IF Present(response[1].body.doc, f) THEN 1 ELSE 0
       /\ LinesWith(result[1].text, Chars("- **"))
            = Cardinality({f \in RenderedFields : Present(response[1].body.doc, f)})
       /\ LinesWith(result[1].text, <<>>)
            = 3 + Cardinality({f \in RenderedFields :
                                 Present(response[1].body.doc, f)})

\* C10 witness: a payload with a hostname and metadata but no client has
\* been rendered: a hostname line, no client line.
C10_Witness ==
  /\ Done /\ tool = "aw_get_bucket" /\ UpstreamOk /\ HumanReadable
  /\ PartialBucket(response[1].body.doc)
  /\ Present(response[1].body.doc, "hostname")
  /\ Present(response[1].body.doc, "data")
  /\ ~Present(response[1].body.doc, "client")
  /\ LinesWith(result[1].text, Chars("- **Hostname**: testhost")) = 1
  /\ LinesWith(result[1].text, Chars("- **Client**")) = 0

\* The query string the claim describes for each combination of present
\* parameters: limit, then start, then end, "&" between, one "?" in front,
\* nothing at all when none is present.
QueryOf(limit, start, end) ==
  CASE limit = None /\ start = None /\ end = None -> <<>>
    [] limit # None /\ start = None /\ end = None ->
         Chars("?limit=") \o FmtInt(limit[1])
    [] limit = None /\ start # None /\ end = None -> Chars("?start=") \o start[1]
    [] limit = None /\ start = None /\ end # None -> Chars("?end=") \o end[1]
    [] limit # None /\ start # None /\ end = None ->
         Chars("?limit=") \o FmtInt(limit[1]) \o Chars("&start=") \o start[1]
    [] limit # None /\ start = None /\ end # None ->
         Chars("?limit=") \o FmtInt(limit[1]) \o Chars("&end=") \o end[1]
    [] limit = None /\ start # None /\ end # None ->
         Chars("?start=") \o start[1] \o Chars("&end=") \o end[1]
    [] OTHER ->
         Chars("?limit=") \o FmtInt(limit[1]) \o Chars("&start=") \o start[1]
         \o Chars("&end=") \o end[1]

\* The number of occurrences of a character in a string.
CountOf(s, c) == Cardinality({i \in 1..Len(s) : s[i] = c})

\* C11: the URL get_events and get_event_count request is base + path
\* followed by the query string of the optional parameters that are present,
\* in the order limit, start, end (no limit for the count), "&"-joined after
\* a single "?"; with no parameter present the URL has no "?"; the values
\* appear as they were given.
C11_QueryFromPresentParams ==
  /\ (tool = "get_events" /\ pc # "idle")
       => /\ requests
               = <<Chars("http://localhost:5600/api/0/buckets/") \o args.bucket_id
                   \o Chars("/events")
                   \o QueryOf(args.limit, args.start, args.end)>>
          /\ CountOf(requests[1], "?")
               = IF args.limit = None /\ args.start = None /\ args.end = None
                 THEN 0 ELSE 1
  /\ (tool = "get_event_count" /\ pc # "idle")
       => /\ requests
               = <<Chars("http://localhost:5600/api/0/buckets/") \o args.bucket_id
                   \o Chars("/events/count")
                   \o QueryOf(None, args.start, args.end)>>
          /\ CountOf(requests[1], "?")
               = IF args.start = None /\ args.end = None THEN 0 ELSE 1

\* C11 witness: get_events without a limit but with start and end has asked
\* for ".../events?start=..&end=.."; get_events with nothing has no "?".
C11_Witness ==
  /\ tool = "get_events" /\ pc = "done"
  /\ args.limit = None /\ args.start # None /\ args.end # None
  /\ EndsWith(requests[1],
              Chars("/events?start=2024-01-01T00:00:00Z&end=2024-01-01T00:00:00Z"))

\* The path of the bucket's resource for each tool that takes a bucket id,
\* with the id as the caller gave it, written as a URL path is written.
PathFor(name, bucket_id) ==
  percent_encode(Chars("/api/0/buckets/") \o bucket_id
                 \o (CASE name = "aw_get_events" -> Chars("/events")
                       [] name = "aw_get_event_count" -> Chars("/events/count")
                       [] OTHER -> <<>>),
                 PATH_ENCODE_SET)

\* The header line of the rendered output carries the caller's bucket id
\* unchanged.
HeaderCarriesId ==
  /\ (Done /\ tool = "aw_get_events" /\ UpstreamOk /\ HumanReadable)
       => StartsWith(result[1].text,
                     Chars("# Events from ") \o args.bucket_id \o Chars("\n"))
  /\ (Done /\ tool = "aw_get_event_count" /\ UpstreamOk)
       => StartsWith(result[1].text,
                     Chars("# Event Count for ") \o args.bucket_id \o Chars("\n"))

\* C12 (as claimed): for every bucket id that passes the blank check,
\* get_bucket, get_events and get_event_count use the caller's string
\* unchanged, leading and trailing whitespace included, in the path of the
\* request sent upstream and in the header line of the rendered output.
C12_BucketIdUnchanged ==
  /\ (tool \in BucketIdTools /\ requests # <<>>)
       => Url_parse(requests[1]).path = PathFor(tool, args.bucket_id)
  /\ HeaderCarriesId

====
